---- MODULE Spec2Model ----
(***************************************************************************)
(* Rapamycin PBPK model (pkdb_models.models.rapamycin).                    *)
(*                                                                         *)
(* Seven state machines are developed:                                     *)
(*                                                                         *)
(*   SpecPK  the results store of the parameter scan experiment, the       *)
(*           simulation engine filling it with the results of the scans of *)
(*           scan_map, and the PK extraction (scan_parameters.py, pk.py,   *)
(*           base_experiment.py);                                          *)
(*   SpecExtract  the function calculate_rapamycin_pk of pk.py called on a *)
(*           scan result handed to it, of one scan dimension or of two;    *)
(*   SpecGU  the intestine submodel (model_intestine.py): the construction *)
(*           of its chain species and reactions by the module's loops,     *)
(*           followed by the integration of the reaction network;          *)
(*   SpecModels  the three submodels (model_intestine.py, model_liver.py,  *)
(*           model_kidney.py), each constructed by its module and then     *)
(*           integrated, with the changes a simulation applies;            *)
(*   SpecRun the selection and running of experiment groups and the        *)
(*           collection of their figures (simulations.py);                 *)
(*   SpecFit the metadata filter of the control data set                   *)
(*           (fit_experiments.py, metadata.py);                            *)
(*   SpecSims  the construction of the dosing protocols by simulations()   *)
(*           of Kelly1999, Wang2014 and Zimmerman1997, as objects on a     *)
(*           heap, and overrides set on the returned simulations.          *)
(* SpecGUFair is SpecGU with the dissolution of a remaining dose scheduled *)
(* fairly.                                                                 *)
(*                                                                         *)
(* Quantities.  In the submodels amounts of substance are counted in whole *)
(* quanta (umole) and masses (PODOSE_rap) in units of 1e-7 mg, so that     *)
(* mass = amount * Mr_rap holds exactly with Mr_rap = 914.1719 g/mole      *)
(* written as the integer 9141719.  In the scan results doses are exact    *)
(* fractions of mg.                                                        *)
(***************************************************************************)
EXTENDS Integers, Sequences, FiniteSets, TLC

VARIABLES
    results,        \* experiment.results: sim_key -> XResult (or NoResult)
    runs,           \* number of simulations the engine has run
    last_op,        \* the operation that ran last
    raised,         \* exception raised by the last operation ("none" if it returned)
    table_of,       \* sim_key -> outcome of the last extraction on the current result
    calculator_nd   \* what the external PK calculator does with a >1-D series

pkvars == <<results, runs, last_op, raised, table_of, calculator_nd>>

VARIABLES
    model_sid,      \* sid of the Model under construction ("none": no model)
    pc,             \* position in the model's module: the statement to execute next
    k,              \* loop variable of the `for k in range(n_chain)` loops
    compartments,   \* _m.compartments
    parameters,     \* _m.parameters (with the parameters declared inside reactions)
    species,        \* _m.species
    reactions,      \* _m.reactions
    rate_rules,     \* _m.rate_rules
    amount,         \* species id -> amount of substance in the pool
    PODOSE_rap,     \* value of the non-constant parameter PODOSE_rap
    extent,         \* reaction id -> cumulative amount the reaction has converted
    dose0,          \* PODOSE_rap at the start of the current dosing segment
    extent0,        \* extent of dissolution_rap at the start of the current segment
    administered    \* sum of the doses of all segments so far

guvars == <<model_sid, pc, k, compartments, parameters, species, reactions, rate_rules,
            amount, PODOSE_rap, extent, dose0, extent0, administered>>

VARIABLES
    invocation,     \* arguments of the last call of run_simulation_experiments
    run_calls,      \* the calls of run_experiments so far, in order
    dirs,           \* directories that exist
    files,          \* files that exist (a file is the tuple of its path's parts)
    console,        \* what the last call of run_simulation_experiments reported
    n_calls         \* number of calls of run_simulation_experiments

runvars == <<invocation, run_calls, dirs, files, console, n_calls>>

VARIABLES
    fit_mapping,    \* the FitMapping the metadata filters are applied to
    control,        \* the fit mappings of the control data set
    filtered        \* whether the filters have been applied

fitvars == <<fit_mapping, control, filtered>>

VARIABLES
    sim_class,      \* the experiment class whose simulations() is executed
    spc,            \* position in simulations(): the statement to execute next
    it,             \* index of the intervention of the current loop iteration
    locals,         \* the local variables tc0, tc1, tc2 (object ids) and duration
    heap,           \* the objects allocated so far; an object's id is its index
    fresh,          \* ids of the mappings returned by the calls of default_changes
    tcsims,         \* the dictionary tcsims: key -> TimecourseSim
    copy_nd,        \* what the external TimecourseSim does with a repeated segment
    n_changes,      \* number of overrides set after simulations() returned
    last_changed    \* key of the simulation whose override was set last

simvars == <<sim_class, spc, it, locals, heap, fresh, tcsims, copy_nd, n_changes,
             last_changed>>

VARIABLES
    xres_arg,       \* the XResult handed to calculate_rapamycin_pk of pk.py
    df              \* what the call returned or raised (NoValue before the call)

exvars == <<xres_arg, df>>

hvars == <<runvars, fitvars, simvars, exvars>>

vars == <<pkvars, guvars, hvars>>

(***************************************************************************)
(* Bounds                                                                  *)
(***************************************************************************)
MaxK == 2           \* largest number of coordinates along one scan dimension
MaxRuns == 2        \* simulations run by the engine
MaxCalls == 2       \* calls of run_simulation_experiments
MaxChanges == 1     \* overrides set after simulations() returned

(***************************************************************************)
(* Program constants                                                       *)
(***************************************************************************)
Mr_rap == 9141719   \* 914.1719 g/mole, in units of 1e-4 g/mole

\* exact arithmetic on fractions in lowest terms; every operator takes its
\* arguments by value (nv \in {n})
Abs(x) == IF x < 0 THEN -x ELSE x

RECURSIVE GCD(_, _)
GCD(a, b) == IF b = 0 THEN a ELSE GCD(b, a % b)

Frac(n, d) ==
    CHOOSE f \in { LET g == GCD(Abs(nv), Abs(dv))
                       sgn == IF dv < 0 THEN -1 ELSE 1
                   IN  [num |-> sgn * (nv \div g), den |-> sgn * (dv \div g)]
                   : nv \in {n}, dv \in {d} } : TRUE

FMul(x, y) ==
    CHOOSE f \in { LET g1 == GCD(Abs(xv.num), yv.den)
                       g2 == GCD(Abs(yv.num), xv.den)
                   IN  Frac((xv.num \div g1) * (yv.num \div g2),
                            (xv.den \div g2) * (yv.den \div g1))
                   : xv \in {x}, yv \in {y} } : TRUE

FDiv(x, y) == CHOOSE f \in { FMul(x, Frac(yv.den, yv.num)) : yv \in {y} } : TRUE
FAdd(x, y) ==
    CHOOSE f \in { LET g == GCD(xv.den, yv.den)
                   IN  Frac(xv.num * (yv.den \div g) + yv.num * (xv.den \div g),
                            (xv.den \div g) * yv.den)
                   : xv \in {x}, yv \in {y} } : TRUE
FSub(x, y) ==
    CHOOSE f \in { LET g == GCD(xv.den, yv.den)
                   IN  Frac(xv.num * (yv.den \div g) - yv.num * (xv.den \div g),
                            (xv.den \div g) * yv.den)
                   : xv \in {x}, yv \in {y} } : TRUE
\* xn/xd < yn/yd for positive denominators, compared by whole parts and then
\* by the inverted remainders, so that no product is formed
RECURSIVE Less(_, _, _, _)
Less(xn, xd, yn, yd) ==
    IF xn \div xd # yn \div yd THEN xn \div xd < yn \div yd
    ELSE IF yn % yd = 0 THEN FALSE
    ELSE IF xn % xd = 0 THEN TRUE
    ELSE Less(yd, yn % yd, xd, xn % xd)

FLess(x, y) == Less(x.num, x.den, y.num, y.den)

Range(f) == { f[i] : i \in DOMAIN f }
SeqsOf(S, n) == UNION { [1..m -> S] : m \in 1..n }

\* experiment.Mr: molecular weights [g/mole]
Mr == [rap |-> Frac(Mr_rap, 10000), fuj |-> Frac(804, 1)]

(***************************************************************************)
(* scan_parameters.py: RapamycinParameterScan                              *)
(***************************************************************************)
tend == 7200        \* 5 * 24 * 60 [min]
steps == 2000
dose_rap == 2       \* [mg]
num_points == 10

\* np.linspace(start, stop, num=num)
np_linspace(start, stop, num) ==
    [i \in 1..num |->
        FAdd(start, FMul(Frac(i - 1, 1), FDiv(FSub(stop, start), Frac(num - 1, 1))))]

\* np.logspace(start, stop, num=num): 10 ** np.linspace(start, stop, num); a value
\* of a logarithmic range is kept as its exponent log10
np_logspace(start, stop, num) == np_linspace(start, stop, num)

np_append(arr, values) == arr \o values
np_sort(a) == SortSeq(a, FLess)

\* 10 ** e for a whole exponent e
Pow10(e) ==
    IF e.num >= 0 THEN Frac(10 ^ e.num, 1) ELSE Frac(1, 10 ^ (-e.num))

\* the keys of scan_map, in the order of the dictionary
scan_keys == << "dose_scan", "food_scan", "hepatic_scan", "renal_scan",
                "cyp3a4_gu_scan", "cyp3a5_gu_scan", "cyp3a4_li_scan",
                "cyp3a5_li_scan" >>

\* the range of the activity scans: 0.1 ... 10.0 with the default 1.0 added,
\* as exponents
activity_range ==
    np_sort(np_append(np_logspace(Frac(-1, 1), Frac(1, 1), num_points),
                      << Frac(0, 1) >>))

\* scan_map: parameter, range and scale of every scan (log: the range holds
\* exponents)
scan_map ==
    [dose_scan |->
        [parameter |-> "PODOSE_rap",
         range |-> np_sort(np_append(np_linspace(Frac(1, 10), Frac(20, 1), num_points),
                                     << Frac(2, 1) >>)),
         scale |-> "linear", units |-> "mg"],
     food_scan |->
        [parameter |-> "GU__f_oatp", range |-> activity_range,
         scale |-> "log", units |-> "dimensionless"],
     hepatic_scan |->
        [parameter |-> "f_cirrhosis",
         range |-> np_linspace(Frac(0, 1), Frac(9, 10), num_points),
         scale |-> "linear", units |-> "dimensionless"],
     renal_scan |->
        [parameter |-> "KI__f_renal_function", range |-> activity_range,
         scale |-> "log", units |-> "dimensionless"],
     cyp3a4_gu_scan |->
        [parameter |-> "GU__f_cyp3a4", range |-> activity_range,
         scale |-> "log", units |-> "dimensionless"],
     cyp3a5_gu_scan |->
        [parameter |-> "GU__f_cyp3a5", range |-> activity_range,
         scale |-> "log", units |-> "dimensionless"],
     cyp3a4_li_scan |->
        [parameter |-> "LI__f_cyp3a4", range |-> activity_range,
         scale |-> "log", units |-> "dimensionless"],
     cyp3a5_li_scan |->
        [parameter |-> "LI__f_cyp3a5", range |-> activity_range,
         scale |-> "log", units |-> "dimensionless"]]

\* f"scan_po_{scan_key}"
scan_po ==
    [dose_scan |-> "scan_po_dose_scan", food_scan |-> "scan_po_food_scan",
     hepatic_scan |-> "scan_po_hepatic_scan", renal_scan |-> "scan_po_renal_scan",
     cyp3a4_gu_scan |-> "scan_po_cyp3a4_gu_scan",
     cyp3a5_gu_scan |-> "scan_po_cyp3a5_gu_scan",
     cyp3a4_li_scan |-> "scan_po_cyp3a4_li_scan",
     cyp3a5_li_scan |-> "scan_po_cyp3a5_li_scan"]

\* order of _simulations.keys(): the order in which simulations() fills tcscans
SimOrder == [i \in 1..Len(scan_keys) |-> scan_po[scan_keys[i]]]
SimKeys == Range(SimOrder)

scan_key_of(sim_key) == CHOOSE key \in Range(scan_keys) : scan_po[key] = sim_key

\* scan_map[...]["parameter"]: the parameter a scan varies
scan_parameter == [s \in SimKeys |-> scan_map[scan_key_of(s)].parameter]

NoResult == [dims |-> <<>>, PODOSE_rap |-> <<>>, Cveblood_rap |-> <<>>, Cve_rx |-> <<>>]
NoValue == [raised |-> "not called", table |-> <<>>]
NoDose == [kind |-> "None", mmole |-> <<>>]

(***************************************************************************)
(* Scan results produced by the simulation engine.                          *)
(*                                                                         *)
(* dims: sizes of the scan dimensions (all dimensions but _time).           *)
(* PODOSE_rap[t][i]: the values [mg] at time point t for index i of the     *)
(* first scan dimension: a sequence over the remaining scan dimensions      *)
(* (length 1 for a 1-D scan).  Cveblood_rap[i], Cve_rx[i]: the shape of the *)
(* concentration series selected by index i of the first scan dimension,    *)
(* again one entry per index of the remaining dimensions.  Two time points  *)
(* are kept: the first, and the last, at which the dose has dissolved.      *)
(***************************************************************************)
\* an XResult whose first scan dimension has the doses ds and whose remaining
\* scan dimensions, if any, have k2 indices (k2 = 0: a 1-D result)
XResult(ds, k2) ==
    LET rest == 1..(IF k2 = 0 THEN 1 ELSE k2)
    IN  [dims |-> IF k2 = 0 THEN <<Len(ds)>> ELSE <<Len(ds), k2>>,
         PODOSE_rap |-> << [i \in 1..Len(ds) |-> [j \in rest |-> ds[i]]],
                           [i \in 1..Len(ds) |-> [j \in rest |-> Frac(0, 1)]] >>,
         Cveblood_rap |-> [i \in 1..Len(ds) |-> [j \in rest |-> "curve"]],
         Cve_rx |-> [i \in 1..Len(ds) |-> [j \in rest |-> "curve"]]]

\* ScanSim(simulation=TimecourseSim(Timecourse(changes={..., "PODOSE_rap": dose_rap})),
\*         dimensions=[Dimension("dim_scan", changes={parameter: range})]):
\* one scan dimension; the Timecourse sets PODOSE_rap = dose_rap and the
\* Dimension sets the scanned parameter, so every coordinate of a scan of
\* another parameter than PODOSE_rap starts from dose_rap.  The scan is run on
\* the first kk points of its range.
ScanSim(sim_key, kk) ==
    LET scan_data == scan_map[scan_key_of(sim_key)]
        n == IF kk < Len(scan_data.range) THEN kk ELSE Len(scan_data.range)
    IN  XResult([i \in 1..n |-> IF scan_data.parameter = "PODOSE_rap"
                                THEN scan_data.range[i]
                                ELSE Frac(dose_rap, 1)], 0)

\* the results handed to calculate_rapamycin_pk of pk.py on its own: results
\* of one scan dimension and of two, with doses of the dose scan in any order
InputDoses == { scan_map.dose_scan.range[i] : i \in 1..(MaxK + 1) }
XInputs ==
    { XResult(ds, k2) : ds \in SeqsOf(InputDoses, MaxK), k2 \in {0} \cup 2..(MaxK + 1) }

(***************************************************************************)
(* pk.py                                                                   *)
(***************************************************************************)
\* xres._redop_dims(): the scan dimensions
redop_dims(xres) == xres.dims

\* dose_vec read at the last time point
dose_vec_last_time_point(xres) == xres.PODOSE_rap[Len(xres.PODOSE_rap)]

\* Q_(xres["PODOSE_rap"].values[0], ...): the values at the first time point
dose_vec(xres) == xres.PODOSE_rap[1]

\* dose / experiment.Mr.rap: mass to molar amount
dose_mmole(dose, ndim) == [kind |-> IF ndim = 1 THEN "scalar" ELSE "array",
                           mmole |-> [j \in 1..Len(dose) |-> FDiv(dose[j], Mr.rap)]]

\* xres[sid].sel({scandim: k_dose}).values
c_vec(xres, sid, k_dose) ==
    [sid |-> sid, sel |-> k_dose, ndim |-> Len(redop_dims(xres)),
     values |-> IF sid = "[Cveblood_rap]" THEN xres.Cveblood_rap[k_dose + 1]
                                          ELSE xres.Cve_rx[k_dose + 1]]

\* The external calculator (pkdb_analysis) is defined on a 1-D series, for which
\* it is taken to return its record; what it does with a series of more
\* dimensions is not known here and is fixed by calculator_nd.
WellShaped(c) == c.ndim = 1

\* TimecoursePK(time, concentration, substance, dose).pk.to_dict(): the record of
\* the call; the dose-dependent metrics are computed from the dose argument only.
TimecoursePK(c, substance, dose) ==
    [concentration |-> c,
     substance |-> substance,
     dose |-> dose,
     auc |-> IF \A j \in 1..Len(c.values) : c.values[j] = "curve"
             THEN "value" ELSE "undefined",
     cl |-> IF dose.kind = "None" THEN "undefined" ELSE "from dose",
     vd |-> IF dose.kind = "None" THEN "undefined" ELSE "from dose"]

\* rap_rows with the selection index stuck at the first coordinate
rap_rows_first_coordinate(xres) ==
    [i \in 1..Len(dose_vec(xres)) |->
        [TimecoursePK(c_vec(xres, "[Cveblood_rap]", 0), "rapamycin",
                      dose_mmole(dose_vec(xres)[i], Len(redop_dims(xres))))
            EXCEPT !.substance = "rap"]]

\* first loop (pk.py 28-66): one 'rap' row per entry of dose_vec
rap_rows(xres) ==
    [i \in 1..Len(dose_vec(xres)) |->
        [TimecoursePK(c_vec(xres, "[Cveblood_rap]", i - 1), "rapamycin",
                      dose_mmole(dose_vec(xres)[i], Len(redop_dims(xres))))
            EXCEPT !.substance = "rap"]]

\* rx_rows handing the parent drug's dose to the calculator
rx_rows_with_dose(xres) ==
    [i \in 1..Len(dose_vec(xres)) |->
        [TimecoursePK(c_vec(xres, "[Cve_rx]", i - 1), "rx",
                      dose_mmole(dose_vec(xres)[i], Len(redop_dims(xres))))
            EXCEPT !.substance = "rx"]]

\* second loop (pk.py 69-99): one 'rx' row per entry of dose_vec
rx_rows(xres) ==
    [i \in 1..Len(dose_vec(xres)) |->
        [TimecoursePK(c_vec(xres, "[Cve_rx]", i - 1), "rx", NoDose)
            EXCEPT !.substance = "rx"]]

\* calculate_rapamycin_pk with the rows of one coordinate next to each other
calculate_rapamycin_pk_by_coordinate(xres, nd) ==
    IF ~WellShaped(c_vec(xres, "[Cveblood_rap]", 0)) /\ nd = "raise"
    THEN [raised |-> "CalculatorError", table |-> <<>>]
    ELSE [raised |-> "none",
          table |-> [i \in 1..(2 * Len(dose_vec(xres))) |->
                        IF i % 2 = 1 THEN rap_rows(xres)[(i + 1) \div 2]
                                     ELSE rx_rows(xres)[i \div 2]]]

\* calculate_rapamycin_pk(experiment, xres): the table, or the exception of the
\* first calculator call when the calculator rejects the series it is handed
calculate_rapamycin_pk(xres, nd) ==
    IF ~WellShaped(c_vec(xres, "[Cveblood_rap]", 0)) /\ nd = "raise"
    THEN [raised |-> "CalculatorError", table |-> <<>>]
    ELSE [raised |-> "none", table |-> rap_rows(xres) \o rx_rows(xres)]

(***************************************************************************)
(* pk.py: what the function does with the objects it is handed.            *)
(*                                                                         *)
(* Each statement of the function is a record: the line, what it does to   *)
(* an object (op), the local name it binds or writes through, the buffer a *)
(* bound name refers to, and for a call the callee and the names handed    *)
(* over.  A buffer is a view of an array of the result (index i of the     *)
(* first scan dimension, 0 for the whole array; of PODOSE_rap the values   *)
(* at the first time point) or a fresh object.  .values, [0], .sel() and   *)
(* Q_() do not copy an array: what they return is a view of the storage of *)
(* the result, so a write through such a name is a write into the result;  *)
(* an element of the iteration over dose_vec is taken to be one as well.   *)
(* A binary operator and dim_mean() return a fresh object.                 *)
(***************************************************************************)
Fresh == [array |-> "fresh", index |-> 0]
View(array, index) == [array |-> array, index |-> index]

Stmt(line, op, name, refers, callee, args) ==
    [line |-> line, op |-> op, name |-> name, refers |-> refers,
     callee |-> callee, args |-> args]

\* the statements that write into the object behind a name
WriteOps == {"setitem", "append", "itruediv"}

\* the arguments the external calculator writes into: by its call contract it
\* takes the time array, the concentration array and the dose and returns a
\* record, so none.  Its code is not part of the repository.
TimecoursePK_writes == {}

\* head_statements with the conversion of the doses done once, in place:
\* dose_vec /= experiment.Mr.rap
head_statements_dose_vec_in_place ==
    << Stmt(23, "bind", "scandim", Fresh, "_redop_dims", {}),
       Stmt(24, "bind", "dose_vec", View("PODOSE_rap", 0), "Q_", {}),
       Stmt(25, "itruediv", "dose_vec", Fresh, "", {}),
       Stmt(27, "bind", "pk_dicts", Fresh, "list", {}) >>

\* pk.py 20-27
head_statements ==
    << Stmt(23, "bind", "scandim", Fresh, "_redop_dims", {}),
       Stmt(24, "bind", "dose_vec", View("PODOSE_rap", 0), "Q_", {}),
       Stmt(27, "bind", "pk_dicts", Fresh, "list", {}) >>

\* pk.py 28-66, the body of the first loop for index k_dose:
\*   dose_mmole = dose / experiment.Mr.rap is a binary operator (a new object),
\*   pk_dict["substance"] = "rap" writes into the mapping to_dict() returned,
\*   pk_dicts.append(pk_dict) into the list of line 27
rap_statements(k_dose) ==
    << Stmt(28, "bind", "dose", View("PODOSE_rap", k_dose + 1), "enumerate", {}),
       Stmt(29, "bind", "t_vec", Fresh, "dim_mean", {}),
       Stmt(30, "bind", "t_vec", Fresh, "Q_", {}),
       Stmt(32, "bind", "c_vec", View("[Cveblood_rap]", k_dose + 1), "Q_", {}),
       Stmt(37, "bind", "dose_mmole", Fresh, "truediv", {}),
       Stmt(38, "call", "tcpk", Fresh, "TimecoursePK", {"t_vec", "c_vec", "dose_mmole"}),
       Stmt(46, "bind", "pk_dict", Fresh, "to_dict", {}),
       Stmt(65, "setitem", "pk_dict", Fresh, "", {}),
       Stmt(66, "append", "pk_dicts", Fresh, "", {}) >>

\* pk.py 69-99, the body of the second loop for index k_dose
rx_statements(k_dose) ==
    << Stmt(69, "bind", "dose", View("PODOSE_rap", k_dose + 1), "enumerate", {}),
       Stmt(70, "bind", "t_vec", Fresh, "dim_mean", {}),
       Stmt(71, "bind", "t_vec", Fresh, "Q_", {}),
       Stmt(72, "bind", "c_vec", View("[Cve_rx]", k_dose + 1), "Q_", {}),
       Stmt(77, "call", "tcpk", Fresh, "TimecoursePK", {"t_vec", "c_vec"}),
       Stmt(85, "bind", "pk_dict", Fresh, "to_dict", {}),
       Stmt(98, "setitem", "pk_dict", Fresh, "", {}),
       Stmt(99, "append", "pk_dicts", Fresh, "", {}) >>

RECURSIVE loop_statements(_, _, _)
loop_statements(rap, k_dose, n) ==
    IF k_dose >= n THEN <<>>
    ELSE (IF rap THEN rap_statements(k_dose) ELSE rx_statements(k_dose))
         \o loop_statements(rap, k_dose + 1, n)

\* the statements calculate_rapamycin_pk executes on a result whose first scan
\* dimension has n indices (pk.py 20-101)
pk_statements(n) ==
    head_statements \o loop_statements(TRUE, 0, n) \o loop_statements(FALSE, 0, n)
       \o << Stmt(101, "call", "df", Fresh, "DataFrame", {"pk_dicts"}) >>

\* the buffer the name refers to when statement number i of stmts is executed:
\* that of the last statement before it that bound the name
bound(stmts, i, name) ==
    LET js == { j \in 1..(i - 1) : stmts[j].op \in {"bind", "call"}
                                      /\ stmts[j].name = name }
    IN  IF js = {} THEN Fresh
        ELSE stmts[CHOOSE j \in js : \A j2 \in js : j2 <= j].refers

\* the writes of the statements stmts: those of the statements that write
\* through a name, and those of the calculator into what it is handed
writes(stmts) ==
    { [at |-> i, op |-> stmts[i].op, buffer |-> bound(stmts, i, stmts[i].name)]
        : i \in { j \in DOMAIN stmts : stmts[j].op \in WriteOps } }
    \cup
    { [at |-> ia[1], op |-> "calculator", buffer |-> bound(stmts, ia[1], ia[2])]
        : ia \in { x \in (DOMAIN stmts) \X TimecoursePK_writes :
                     /\ stmts[x[1]].callee = "TimecoursePK"
                     /\ x[2] \in stmts[x[1]].args } }

\* the writes of ws into index i of the array of a result
hits(ws, array, i) == { w \in ws : w.buffer.array = array /\ w.buffer.index \in {0, i} }

\* a value of PODOSE_rap after the writes hs, applied in the order of the
\* statements: an in-place division divides by Mr.rap
RECURSIVE after_writes(_, _)
after_writes(v, hs) ==
    IF hs = {} THEN v
    ELSE LET w == CHOOSE x \in hs : \A y \in hs : x.at <= y.at
         IN  after_writes(IF w.op = "itruediv" THEN FDiv(v, Mr.rap) ELSE Frac(0, 1),
                     hs \ {w})

\* the XResult after calculate_rapamycin_pk has run on it: the arrays with the
\* writes of the executed statements that go through a view of the result
xres_after_pk(xres) ==
    CHOOSE after \in {
        [xres EXCEPT
            !.PODOSE_rap[1] =
                [i \in 1..Len(@) |->
                    [j \in 1..Len(@[i]) |-> after_writes(@[i][j], hits(ws, "PODOSE_rap", i))]],
            !.Cveblood_rap =
                [i \in 1..Len(@) |->
                    IF hits(ws, "[Cveblood_rap]", i) = {} THEN @[i]
                    ELSE [j \in 1..Len(@[i]) |-> "overwritten"]],
            !.Cve_rx =
                [i \in 1..Len(@) |->
                    IF hits(ws, "[Cve_rx]", i) = {} THEN @[i]
                    ELSE [j \in 1..Len(@[i]) |-> "overwritten"]]]
        : ws \in {writes(pk_statements(Len(dose_vec(xres))))} } : TRUE

(***************************************************************************)
(* base_experiment.py                                                      *)
(***************************************************************************)
\* the statements of the method for one key (base_experiment.py 249-254; the
\* branch of the default argument, 256-259, has the same ones): xres is the
\* object stored in self.results, pk_dfs a dict of the method's own
method_statements ==
    << Stmt(249, "bind", "pk_dfs", Fresh, "dict", {}),
       Stmt(252, "bind", "xres", View("self.results[key]", 0), "getitem", {}),
       Stmt(253, "call", "df", Fresh, "calculate_rapamycin_pk", {"xres"}),
       Stmt(254, "setitem", "pk_dfs", Fresh, "", {}) >>

\* the callables that run simulations: run_experiments of helpers and the run
\* method of the experiment
EngineCalls == {"run_experiments", "run"}

\* the statements among stmts that run simulations
simulations_run(stmts) ==
    { i \in DOMAIN stmts : stmts[i].op = "call" /\ stmts[i].callee \in EngineCalls }

\* the statements executed for a key whose stored result is xres
key_statements(xres) == method_statements \o pk_statements(Len(dose_vec(xres)))

\* what self.results holds under a key after the method has handled it: the
\* stored object, which is the xres handed to pk.py, unless the method stores
\* another one
stored_after(xres) ==
    IF hits(writes(method_statements), "self.results", 0) # {} THEN NoResult
    ELSE xres_after_pk(xres)

\* xres = self.results[f"task_{sim_key}"]; df = calculate_rapamycin_pk(self, xres)
extract(sim_key) ==
    IF results[sim_key] = NoResult
    THEN [raised |-> "KeyError", table |-> <<>>]
    ELSE calculate_rapamycin_pk(results[sim_key], calculator_nd)

\* index of the first key whose extraction raises, 0 if none does
first_raise(keys) ==
    IF \E i \in 1..Len(keys) : extract(keys[i]).raised # "none"
    THEN CHOOSE i \in 1..Len(keys) :
            /\ extract(keys[i]).raised # "none"
            /\ \A j \in 1..(i - 1) : extract(keys[j]).raised = "none"
    ELSE 0

\* keys on which calculate_rapamycin_pk was called: those before the first raise,
\* and the raising one unless the lookup in self.results raised
called(keys) ==
    LET ff == first_raise(keys)
    IN  { keys[i] : i \in { j \in 1..Len(keys) :
                              /\ results[keys[j]] # NoResult
                              /\ ff \in {0} \cup j..Len(keys) } }

\* the `scans` arguments of the calls: the default, and lists of one or two of
\* the first four scans
ArgKeys == { SimOrder[i] : i \in 1..4 }
ScanArgs == { <<>> } \cup { sq \in SeqsOf(ArgKeys, 2) :
                              \A i, j \in 1..Len(sq) : i # j => sq[i] # sq[j] }

(***************************************************************************)
(* simulations.py: the groups of experiments and the selection of what to   *)
(* run.  An optional argument is a record: None has some = FALSE.  A path   *)
(* is the tuple of its parts.                                               *)
(***************************************************************************)
None == [some |-> FALSE, val |-> <<>>]
Some(v) == [some |-> TRUE, val |-> v]

RESULTS_PATH_SIMULATION == <<"results", "simulation">>

EXPERIMENTS_literal ==
    [studies |-> <<"BasaDenes2019", "Bottiger2001", "Brattstrom2000", "Kelly1999",
                   "KorthBradley2012", "Leelahavanichkul2005", "Leung2006",
                   "Renders2007", "Rogers2008", "Tortorici2013", "Tortorici2014",
                   "Wang2014", "Zha2022", "Zhang2017", "Zimmerman1997",
                   "Zimmerman1999", "Zimmerman2003", "Zimmerman2008">>,
     dose |-> <<"BasaDenes2019", "Brattstrom2000", "Kelly1999", "Zimmerman1997">>,
     cyp3a4_5 |-> <<"Renders2007", "Zhang2017">>,
     food |-> <<"BasaDenes2019", "Zimmerman1999">>,
     hepatic_impairment |-> <<>>,
     renal_impairment |-> <<"Rogers2008">>,
     renal_transplant |-> <<"Wang2014">>,
     misc |-> <<"DoseDependencyExperiment">>,
     scan |-> <<>>]

\* EXPERIMENTS after `EXPERIMENTS["all"] = EXPERIMENTS["studies"] + EXPERIMENTS["misc"]`
EXPERIMENTS ==
    [g \in DOMAIN EXPERIMENTS_literal \cup {"all"} |->
        IF g = "all" THEN EXPERIMENTS_literal["studies"] \o EXPERIMENTS_literal["misc"]
                     ELSE EXPERIMENTS_literal[g]]

\* `elif selected:` the truth value of the argument `selected`
truthy(selected) == selected.some /\ selected.val # ""

\* a variant that runs all experiments when the group is unknown
experiments_to_run_default_all(selected, experiment_classes) ==
    IF experiment_classes.some
    THEN [error |-> "none", classes |-> experiment_classes.val,
          subdir |-> "custom_selection"]
    ELSE IF truthy(selected)
    THEN IF selected.val \notin DOMAIN EXPERIMENTS
         THEN [error |-> "none", classes |-> EXPERIMENTS["all"], subdir |-> "all"]
         ELSE [error |-> "none", classes |-> EXPERIMENTS[selected.val],
               subdir |-> selected.val]
    ELSE [error |-> "Error: No experiments specified!", classes |-> <<>>,
          subdir |-> ""]

\* the `if experiment_classes is not None: / elif selected: / else:` statement of
\* run_simulation_experiments: the experiments to run and the default directory
\* under RESULTS_PATH_SIMULATION, or the error reported before returning
experiments_to_run(selected, experiment_classes) ==
    IF experiment_classes.some
    THEN [error |-> "none", classes |-> experiment_classes.val,
          subdir |-> "custom_selection"]
    ELSE IF truthy(selected)
    THEN IF selected.val \notin DOMAIN EXPERIMENTS
         THEN [error |-> "Error: Unknown group", classes |-> <<>>, subdir |-> ""]
         ELSE [error |-> "none", classes |-> EXPERIMENTS[selected.val],
               subdir |-> selected.val]
    ELSE [error |-> "Error: No experiments specified!", classes |-> <<>>,
          subdir |-> ""]

\* the directories a path lies in: its proper, non-empty prefixes
parents(path) == { SubSeq(path, 1, n) : n \in 1..(Len(path) - 1) }

\* path.parent
parent(path) == SubSeq(path, 1, Len(path) - 1)

\* path.name
name(path) == path[Len(path)]

\* output_dir.glob("**/*.png"): every file below output_dir (all files are figures)
glob(output_dir, fs) ==
    { f \in fs : Len(f) > Len(output_dir) /\ SubSeq(f, 1, Len(output_dir)) = output_dir }

\* no call of run_simulation_experiments has been made
RunIdle ==
    /\ invocation = [selected |-> None, experiment_classes |-> None, output_dir |-> None]
    /\ run_calls = <<>>
    /\ dirs = {}
    /\ files = {}
    /\ console = "none"
    /\ n_calls = 0

(***************************************************************************)
(* metadata.py, fit_experiments.py: the metadata of a fit mapping and the   *)
(* filter of the control data set.  An enum member is modelled by its value *)
(* (the enums mix in str; a value written as a one-element tuple is the     *)
(* argument list of str and yields the string).                             *)
(***************************************************************************)
Dosing == {"single", "multiple", "infusion"}

Health == {"healthy", "hypertension", "cirrhosis", "renal impairment",
           "hepatic impairment", "congestive heart failure", "obese",
           "renal transplant"}

Coadministration == {"none", "diltiazem", "fujimycin", "rifampin", "cycloposporine",
                     "ritonavir", "prednisone", "MPM", "fujimycin and mpm",
                     "famotidine"}

Genotype == {"not reported", "CYP3A4 *1/*1", "CYP3A4 *1/*1G", "CYP3A4 *1G/*1G",
             "CYP3A5 *1/*1", "CYP3A5 *1/*3", "CYP3A5 *3/*3"}

\* the fields of RapamycinMappingMetaData the filters read
RapamycinMappingMetaData ==
    [dosing : Dosing, health : Health, coadministration : Coadministration,
     genotype : Genotype, outlier : BOOLEAN]

\* a variant that keeps outliers
filter_baseline_keeping_outliers(fit_mapping_key, mapping) ==
    LET metadata == mapping.metadata
    IN  IF metadata.coadministration # "none" THEN FALSE
        ELSE IF metadata.health \notin {"healthy"} THEN FALSE
        ELSE IF metadata.dosing \notin {"single"} THEN FALSE
        ELSE IF metadata.genotype \notin {"CYP3A4 *1/*1", "CYP3A5 *1/*1", "not reported"}
             THEN FALSE
        ELSE TRUE

\* filter_baseline(fit_mapping_key, fit_mapping): the first failing test returns
\* False
filter_baseline(fit_mapping_key, mapping) ==
    LET metadata == mapping.metadata
    IN  IF metadata.coadministration # "none" THEN FALSE
        ELSE IF metadata.health \notin {"healthy"} THEN FALSE
        ELSE IF metadata.dosing \notin {"single"} THEN FALSE
        ELSE IF metadata.genotype \notin {"CYP3A4 *1/*1", "CYP3A5 *1/*1", "not reported"}
             THEN FALSE
        ELSE IF metadata.outlier THEN FALSE
        ELSE TRUE

\* no fit mapping is being filtered
FitIdle ==
    /\ fit_mapping = [key |-> "", metadata |-> None]
    /\ control = {}
    /\ filtered = FALSE

(***************************************************************************)
(* base_experiment.py, studies/kelly1999.py, studies/wang2014.py,           *)
(* studies/zimmerman1997.py: the dosing protocols.  Objects live in `heap`; *)
(* a variable or a list element holds the id of an object.  A quantity      *)
(* Q_(magnitude, units) is a value; its magnitude is a fraction where the   *)
(* program computes it, and the decimal literal of the source otherwise.    *)
(***************************************************************************)
Q_(magnitude, units) == [magnitude |-> magnitude, units |-> units]

\* the mapping built by _default_changes(Q_)
default_changes_items ==
    [ftissue_rap |-> Q_("6.385157332090921", "l/min"),
     Kp_rap |-> Q_("10.000004054918183", "dimensionless"),
     GU__RAPIM_k |-> Q_("0.010254172647171959", "1/min"),
     GU__RAP2RX_k |-> Q_("0.43373578546152136", "1/min"),
     GU__RXPG_k |-> Q_("0.010328378821077363", "1/min"),
     GU__RXEXC_k |-> Q_("0.023347411187126337", "1/min"),
     KI__RXEX_k |-> Q_("0.1693055659116988", "1/min"),
     LI__RAP2RX_Vmax |-> Q_("0.002858932837010464", "mmole/min/l"),
     LI__RXBEX_k |-> Q_("2.2698133102257085e-06", "1/min")]

\* {**a, **b}: the items of a, overridden and extended by those of b
dict_merge(a, b) ==
    [x \in DOMAIN a \cup DOMAIN b |-> IF x \in DOMAIN b THEN b[x] ELSE a[x]]

\* a new dict object and a new Timecourse object
Dict(items) == [kind |-> "dict", items |-> items]
Timecourse(start, end, nsteps, changes) ==
    [kind |-> "Timecourse", start |-> start, end |-> end, steps |-> nsteps,
     changes |-> changes]

\* the interventions of the three experiments; those of Kelly1999 are spelled
\* out character by character because simulations() searches them
Kelly1999_interventions ==
    << <<"R", "A", "P", "_", "L", "2", ",", " ", "C", "S", "A">>,
       <<"R", "A", "P", "_", "L", "4", ",", " ", "C", "S", "A">>,
       <<"R", "A", "P", "_", "L", "8", ",", " ", "C", "S", "A">>,
       <<"R", "A", "P", "_", "T", "2", ",", " ", "C", "S", "A">>,
       <<"R", "A", "P", "_", "T", "4", ",", " ", "C", "S", "A">>,
       <<"R", "A", "P", "_", "T", "8", ",", " ", "C", "S", "A">> >>
Wang2014_interventions == <<"RAP", "RAP_CSA">>
Zimmerman1997_interventions == <<"RAP05", "RAP1_5", "RAP2_5", "RAP3_5", "RAP6_5">>

RECURSIVE join(_)
\* the string spelled by a sequence of characters
join(chars) == IF chars = <<>> THEN "" ELSE chars[1] \o join(Tail(chars))

\* f"rap_{intervention}"
sim_key_of(class, n) ==
    IF class = "Kelly1999" THEN "rap_" \o join(Kelly1999_interventions[n])
    ELSE IF class = "Wang2014" THEN "rap_" \o Wang2014_interventions[n]
    ELSE "rap_" \o Zimmerman1997_interventions[n]

n_interventions(class) ==
    IF class = "Kelly1999" THEN Len(Kelly1999_interventions)
    ELSE IF class = "Wang2014" THEN Len(Wang2014_interventions)
    ELSE Len(Zimmerman1997_interventions)

\* Wang2014.f_cyp3a4
Wang2014_f_cyp3a4 == [RAP |-> Frac(10, 10), RAP_CSA |-> Frac(6, 10)]

\* Zimmerman1997.doses [mg/m^2]
Zimmerman1997_doses ==
    [RAP05 |-> Frac(5, 10), RAP1_5 |-> Frac(15, 10), RAP2_5 |-> Frac(25, 10),
     RAP3_5 |-> Frac(35, 10), RAP6_5 |-> Frac(65, 10)]

\* Kelly1999: the if/elif statement on `"2" in intervention`, `"4" in ...`,
\* `"8" in ...`; the local variable keeps its value if no test succeeds
Kelly1999_duration(intervention, duration) ==
    IF "2" \in Range(intervention) THEN 2
    ELSE IF "4" \in Range(intervention) THEN 4
    ELSE IF "8" \in Range(intervention) THEN 8
    ELSE duration

\* a variant whose offset spans the full weeks
Kelly1999_time_offset_full_weeks(duration) == -(7 * duration) * 24 * 60

\* Kelly1999: time_offset = -(7*duration - 1) * 24 * 60
Kelly1999_time_offset(duration) == -(7 * duration - 1) * 24 * 60

\* [tc] * n
repeat(tc, n) == [j \in 1..n |-> tc]

\* copy.deepcopy of the Timecourse `tc`: a new mapping and a new Timecourse
deepcopy(h, tc) ==
    h \o <<Dict(h[h[tc].changes].items),
           Timecourse(h[tc].start, h[tc].end, h[tc].steps, Len(h) + 1)>>

RECURSIVE store_timecourses(_, _, _, _)
\* TimecourseSim.__init__ (sbmlsim): the segments are stored in order.  Whether
\* a segment that is already in the list is stored again or as a deep copy is
\* what `nd` says.  Yields the heap and the stored list.
store_timecourses(h, stored, rest, nd) ==
    IF rest = <<>> THEN [heap |-> h, timecourses |-> stored]
    ELSE IF nd = "copy_repeated" /\ rest[1] \in Range(stored)
         THEN store_timecourses(deepcopy(h, rest[1]), Append(stored, Len(h) + 2),
                                Tail(rest), nd)
         ELSE store_timecourses(h, Append(stored, rest[1]), Tail(rest), nd)

\* TimecourseSim(timecourses, time_offset=...)
TimecourseSim(timecourses, time_offset) ==
    [timecourses |-> timecourses, time_offset |-> time_offset]

RECURSIVE elapsed(_, _, _)
\* the time the first n segments of a simulation take, one after another
elapsed(h, timecourses, n) ==
    IF n = 0 THEN 0
    ELSE elapsed(h, timecourses, n - 1) + h[timecourses[n]].end - h[timecourses[n]].start

\* reported time at which segment i of the simulation starts
segment_start(h, sim, i) == sim.time_offset + elapsed(h, sim.timecourses, i - 1)

NoLocals == [tc0 |-> 0, tc1 |-> 0, tc2 |-> 0, duration |-> 0]

\* simulations() is not being executed
SimIdle ==
    /\ sim_class = "none"
    /\ spc = "off"
    /\ it = 0
    /\ locals = NoLocals
    /\ heap = <<>>
    /\ fresh = <<>>
    /\ tcsims = <<>>
    /\ copy_nd = "references"
    /\ n_changes = 0
    /\ last_changed = ""

ExtractIdle ==
    /\ xres_arg = NoResult
    /\ df = NoValue

(***************************************************************************)
(* Actions of SpecPK                                                       *)
(***************************************************************************)
InitPK ==
    /\ results = [s \in SimKeys |-> NoResult]
    /\ runs = 0
    /\ last_op = "none"
    /\ raised = "none"
    /\ table_of = [s \in SimKeys |-> NoValue]
    /\ calculator_nd \in {"raise", "return"}
    /\ model_sid = "none"
    /\ pc = "off" /\ k = 0
    /\ compartments = <<>> /\ parameters = <<>> /\ species = <<>>
    /\ reactions = <<>> /\ rate_rules = <<>>
    /\ amount = <<>> /\ extent = <<>>
    /\ PODOSE_rap = 0 /\ dose0 = 0 /\ extent0 = 0 /\ administered = 0
    /\ RunIdle
    /\ ExtractIdle
    /\ FitIdle
    /\ SimIdle

\* The engine runs the experiment: every simulation of simulations() is run
\* and its XResult stored, each scan on the first kk points of its range.
Simulate(kk) ==
    /\ runs < MaxRuns
    /\ results' = [s \in SimKeys |-> ScanSim(s, kk)]
    /\ runs' = runs + 1
    /\ table_of' = [s \in SimKeys |-> NoValue]
    /\ last_op' = "simulate"
    /\ raised' = "none"
    /\ UNCHANGED <<calculator_nd, guvars, hvars>>

\* RapamycinSimulationExperiment.calculate_rapamycin_pk(scans): the tables of the
\* keys it was called on are recorded in table_of; it returns them as pk_dfs
\* unless one of the extractions raised
CalculateRapamycinPk(scans) ==
    LET keys == IF scans # <<>> THEN scans ELSE SimOrder
        ff == first_raise(keys)
        on == called(keys)
    IN  /\ last_op' = "calculate_rapamycin_pk"
        /\ raised' = IF ff = 0 THEN "none" ELSE extract(keys[ff]).raised
        /\ table_of' = [s \in SimKeys |-> IF s \in on THEN extract(s)
                                                          ELSE table_of[s]]
        /\ results' = [s \in SimKeys |-> IF s \in on
                                          THEN stored_after(results[s])
                                          ELSE results[s]]
        /\ runs' = runs + Cardinality({ s \in on :
                                simulations_run(key_statements(results[s])) # {} })
        /\ UNCHANGED <<calculator_nd, guvars, hvars>>

NextPK ==
    \/ \E kk \in 1..MaxK : Simulate(kk)
    \/ \E scans \in ScanArgs : CalculateRapamycinPk(scans)

SpecPK == InitPK /\ [][NextPK]_vars

(***************************************************************************)
(* Actions of SpecExtract: calculate_rapamycin_pk of pk.py called on a      *)
(* result handed to it                                                      *)
(***************************************************************************)
InitExtract ==
    /\ results = [s \in SimKeys |-> NoResult]
    /\ runs = 0
    /\ last_op = "none"
    /\ raised = "none"
    /\ table_of = [s \in SimKeys |-> NoValue]
    /\ calculator_nd \in {"raise", "return"}
    /\ model_sid = "none"
    /\ pc = "off" /\ k = 0
    /\ compartments = <<>> /\ parameters = <<>> /\ species = <<>>
    /\ reactions = <<>> /\ rate_rules = <<>>
    /\ amount = <<>> /\ extent = <<>>
    /\ PODOSE_rap = 0 /\ dose0 = 0 /\ extent0 = 0 /\ administered = 0
    /\ RunIdle
    /\ FitIdle
    /\ SimIdle
    /\ xres_arg \in XInputs
    /\ df = NoValue

\* df = calculate_rapamycin_pk(experiment, xres)
CallCalculateRapamycinPk ==
    /\ df = NoValue
    /\ df' = calculate_rapamycin_pk(xres_arg, calculator_nd)
    /\ xres_arg' = xres_after_pk(xres_arg)
    /\ UNCHANGED <<pkvars, guvars, runvars, fitvars, simvars>>

NextExtract == CallCalculateRapamycinPk

SpecExtract == InitExtract /\ [][NextExtract]_vars

(***************************************************************************)
(* model_intestine.py: declarations                                        *)
(*                                                                         *)
(* Scales: volumes in 1e-5 liter, rate constants in 1e-2 per minute        *)
(* (RateScale), activity factors in tenths (FactorScale).                  *)
(***************************************************************************)
n_chain == 5

Vext == 100000       \* 1.0 l
Vgu == 128250        \* 1.2825 l
Vlumen == 115425     \* 1.2825 * 0.9 l
Vfeces == 100000     \* 1 l
Ventero == 12825     \* 1.2825 * 0.1 l
Vstomach == 100000   \* 1 l
Vchain == 10000      \* 0.1 l

f_oatp == 10         \* 1.0
f_cyp3a4 == 10       \* 1.0
f_cyp3a5 == 10       \* 1.0
f_pg == 10           \* 1.0
RAPIM_k == 10        \* 0.10 per min
RAP2RX_k == 2        \* 0.02 per min
RXPG_k == 10         \* 0.10 per min
RXEXC_k == 10        \* 0.10 per min
Ka_dis_rap == 2      \* 2.0 per hr
min_per_hr == 60

RateScale == 100
FactorScale == 10
VolumeScale == 100000

\* f"Vint_{k}", f"rx_int_{k}", f"RXEXC_{k}"
Vint(i) == <<"Vint_0", "Vint_1", "Vint_2", "Vint_3", "Vint_4", "Vint_5">>[i + 1]
rx_int(i) == <<"rx_int_0", "rx_int_1", "rx_int_2", "rx_int_3", "rx_int_4",
               "rx_int_5">>[i + 1]
RXEXC(i) == <<"RXEXC_0", "RXEXC_1", "RXEXC_2", "RXEXC_3", "RXEXC_4", "RXEXC_5">>[i + 1]

Compartment(sid, value, nan, constant) ==
    [sid |-> sid, value |-> value, nan |-> nan, constant |-> constant]

\* Parameter(sid, value, unit): the value is the fraction num/den
Parameter(sid, num, den, unit) ==
    [sid |-> sid, value |-> Frac(num, den), unit |-> unit]

Species(sid, compartment, hasOnlySubstanceUnits, boundaryCondition) ==
    [sid |-> sid, compartment |-> compartment,
     hasOnlySubstanceUnits |-> hasOnlySubstanceUnits,
     boundaryCondition |-> boundaryCondition]

\* A reaction `reactant -> product` with the rate law
\*   linear:       (product of factors) * rate constant * volume * species
\*   dissolution:  Ka_dis_rap/60 min_per_hr * PODOSE_rap/Mr_rap
Reaction(sid, reactant, product, compartment, formula) ==
    [sid |-> sid, reactant |-> reactant, product |-> product,
     compartment |-> compartment, formula |-> formula]

Linear(factors, rate_k, volume, sp) ==
    [kind |-> "linear", factors |-> factors, rate_k |-> rate_k,
     volume |-> volume, sp |-> sp]

\* the dissolution law written over the reactant of the reaction
Dissolution_of_stomach_pool ==
    [kind |-> "linear", factors |-> <<>>, rate_k |-> "Ka_dis_rap",
     volume |-> "Vstomach", sp |-> "rap_stomach"]

Dissolution ==
    [kind |-> "dissolution", factors |-> <<>>, rate_k |-> "Ka_dis_rap",
     volume |-> "", sp |-> "PODOSE_rap"]

\* _m.compartments = [...]
compartments_list ==
    << Compartment("Vext", Vext, FALSE, TRUE),
       Compartment("Vgu", Vgu, FALSE, TRUE),
       Compartment("Vlumen", Vlumen, FALSE, FALSE),
       Compartment("Vfeces", Vfeces, FALSE, TRUE),
       Compartment("Ventero", Ventero, FALSE, FALSE),
       Compartment("Vapical", 0, TRUE, TRUE),
       Compartment("Vbaso", 0, TRUE, TRUE),
       Compartment("Vstomach", Vstomach, FALSE, TRUE) >>

\* _m.species = [...]
species_list ==
    << Species("rap_stomach", "Vstomach", TRUE, TRUE),
       Species("rap_lumen", "Vlumen", FALSE, FALSE),
       Species("rx_lumen", "Vlumen", FALSE, FALSE),
       Species("rap_entero", "Ventero", FALSE, FALSE),
       Species("rx_entero", "Ventero", FALSE, FALSE),
       Species("rap_ext", "Vext", FALSE, FALSE),
       Species("rx_feces", "Vfeces", TRUE, FALSE) >>

\* the parameters declared in the `pars` of the reactions, in order
reactions_pars ==
    << Parameter("f_oatp", f_oatp, FactorScale, "dimensionless"),
       Parameter("RAPIM_k", RAPIM_k, RateScale, "per_min"),
       Parameter("RAP2RX_k", RAP2RX_k, RateScale, "per_min"),
       Parameter("f_cyp3a4", f_cyp3a4, FactorScale, "dimensionless"),
       Parameter("f_cyp3a5", f_cyp3a5, FactorScale, "dimensionless"),
       Parameter("f_pg", f_pg, FactorScale, "dimensionless"),
       Parameter("RXPG_k", RXPG_k, RateScale, "per_min"),
       Parameter("RXEXC_k", RXEXC_k, RateScale, "per_min") >>

\* reactions_list with the absorption given the rate constant of the reaction
\* declared after it
reactions_list_absorption_uncoupled ==
    << Reaction("RAPIM", "rap_lumen", "rap_entero", "Vapical",
                Linear(<<"f_oatp">>, "RAPIM_k", "Vgu", "rap_lumen")),
       Reaction("RAPABS", "rap_entero", "rap_ext", "Ventero",
                Linear(<<>>, "RAP2RX_k", "Ventero", "rap_entero")),
       Reaction("RAP2RX", "rap_entero", "rx_entero", "Ventero",
                Linear(<<"f_cyp3a4", "f_cyp3a5">>, "RAP2RX_k", "Ventero", "rap_entero")),
       Reaction("RXPG", "rx_entero", "rx_lumen", "Vapical",
                Linear(<<"f_pg">>, "RXPG_k", "Ventero", "rx_entero")),
       Reaction("RXEXC", "rx_lumen", "rx_int_0", "Vlumen",
                Linear(<<>>, "RXEXC_k", "Vgu", "rx_lumen")) >>

\* reactions_list with the formula of RAPIM copied to RAPABS, factor included
reactions_list_absorption_scaled ==
    << Reaction("RAPIM", "rap_lumen", "rap_entero", "Vapical",
                Linear(<<"f_oatp">>, "RAPIM_k", "Vgu", "rap_lumen")),
       Reaction("RAPABS", "rap_entero", "rap_ext", "Ventero",
                Linear(<<"f_oatp">>, "RAPIM_k", "Ventero", "rap_entero")),
       Reaction("RAP2RX", "rap_entero", "rx_entero", "Ventero",
                Linear(<<"f_cyp3a4", "f_cyp3a5">>, "RAP2RX_k", "Ventero", "rap_entero")),
       Reaction("RXPG", "rx_entero", "rx_lumen", "Vapical",
                Linear(<<"f_pg">>, "RXPG_k", "Ventero", "rx_entero")),
       Reaction("RXEXC", "rx_lumen", "rx_int_0", "Vlumen",
                Linear(<<>>, "RXEXC_k", "Vgu", "rx_lumen")) >>

\* _m.reactions = [...]
reactions_list ==
    << Reaction("RAPIM", "rap_lumen", "rap_entero", "Vapical",
                Linear(<<"f_oatp">>, "RAPIM_k", "Vgu", "rap_lumen")),
       Reaction("RAPABS", "rap_entero", "rap_ext", "Ventero",
                Linear(<<>>, "RAPIM_k", "Ventero", "rap_entero")),
       Reaction("RAP2RX", "rap_entero", "rx_entero", "Ventero",
                Linear(<<"f_cyp3a4", "f_cyp3a5">>, "RAP2RX_k", "Ventero", "rap_entero")),
       Reaction("RXPG", "rx_entero", "rx_lumen", "Vapical",
                Linear(<<"f_pg">>, "RXPG_k", "Ventero", "rx_entero")),
       Reaction("RXEXC", "rx_lumen", "rx_int_0", "Vlumen",
                Linear(<<>>, "RXEXC_k", "Vgu", "rx_lumen")) >>

\* chain_target with the bound of the last stage off by one
chain_target_off_by_one(i) == IF i < n_chain THEN rx_int(i + 1) ELSE "rx_feces"

\* target = f"rx_int_{k+1}" if k < n_chain - 1 else f"rx_feces"
chain_target(i) == IF i < n_chain - 1 THEN rx_int(i + 1) ELSE "rx_feces"

\* chain_reaction with every stage emptying into the feces pool
chain_reaction_to_feces(i) ==
    Reaction(RXEXC(i), rx_int(i), "rx_feces", "Vlumen",
             Linear(<<>>, "RXEXC_k", Vint(i), rx_int(i)))

\* chain_reaction with the equation of the last stage written backwards
chain_reaction_last_reversed(i) ==
    IF i < n_chain - 1
    THEN Reaction(RXEXC(i), rx_int(i), rx_int(i + 1), "Vlumen",
                  Linear(<<>>, "RXEXC_k", Vint(i), rx_int(i)))
    ELSE Reaction(RXEXC(i), "rx_feces", rx_int(i), "Vlumen",
                  Linear(<<>>, "RXEXC_k", Vint(i), rx_int(i)))

\* chain_reaction with every stage driven by the lumen pool
chain_reaction_driven_by_lumen(i) ==
    Reaction(RXEXC(i), rx_int(i), chain_target(i), "Vlumen",
             Linear(<<>>, "RXEXC_k", "Vgu", "rx_lumen"))

\* Reaction(sid=f"RXEXC_{k}", equation=f"{source} -> {target}", ...)
chain_reaction(i) ==
    Reaction(RXEXC(i), rx_int(i), chain_target(i), "Vlumen",
             Linear(<<>>, "RXEXC_k", Vint(i), rx_int(i)))

\* the rate rule with the sign dropped
podose_rate_rule_positive ==
    [variable |-> "PODOSE_rap", reaction |-> "dissolution_rap", factor |-> Mr_rap]

\* the rate rule without the conversion of the molar flux to mass
podose_rate_rule_molar ==
    [variable |-> "PODOSE_rap", reaction |-> "dissolution_rap", factor |-> -1]

\* RateRule("PODOSE_rap", "-dissolution_rap * Mr_rap"): d PODOSE_rap/dt as a
\* multiple of the rate of the named reaction
podose_rate_rule ==
    [variable |-> "PODOSE_rap", reaction |-> "dissolution_rap", factor |-> -Mr_rap]

(***************************************************************************)
(* model_intestine.py: the statements of the module, in order              *)
(***************************************************************************)
Ids(list) == { list[i].sid : i \in DOMAIN list }

WithZero(f, list) == [x \in DOMAIN f \cup Ids(list) |-> IF x \in DOMAIN f THEN f[x] ELSE 0]

build_vars == <<model_sid, PODOSE_rap, dose0, extent0, administered>>

SetCompartments ==
    /\ pc = "compartments"
    /\ compartments' = compartments_list
    /\ pc' = "parameters"
    /\ UNCHANGED <<k, parameters, species, reactions, rate_rules, amount, extent,
                   build_vars, pkvars, hvars>>

SetParameters ==
    /\ pc = "parameters"
    /\ parameters' = << Parameter("Vchain", Vchain, VolumeScale, "liter") >>
    /\ pc' = "chain_compartments" /\ k' = 0
    /\ UNCHANGED <<compartments, species, reactions, rate_rules, amount, extent,
                   build_vars, pkvars, hvars>>

AppendChainCompartment ==
    /\ pc = "chain_compartments" /\ k < n_chain
    /\ compartments' = Append(compartments, Compartment(Vint(k), Vchain, FALSE, FALSE))
    /\ k' = k + 1
    /\ UNCHANGED <<pc, parameters, species, reactions, rate_rules, amount, extent,
                   build_vars, pkvars, hvars>>

SetSpecies ==
    /\ pc = "chain_compartments" /\ k = n_chain
    /\ species' = species_list
    /\ amount' = WithZero(<<>>, species_list)
    /\ pc' = "chain_species" /\ k' = 0
    /\ UNCHANGED <<compartments, parameters, reactions, rate_rules, extent,
                   build_vars, pkvars, hvars>>

AppendChainSpecies ==
    /\ pc = "chain_species" /\ k < n_chain
    /\ species' = Append(species, Species(rx_int(k), Vint(k), FALSE, FALSE))
    /\ amount' = WithZero(amount, <<Species(rx_int(k), Vint(k), FALSE, FALSE)>>)
    /\ k' = k + 1
    /\ UNCHANGED <<pc, compartments, parameters, reactions, rate_rules, extent,
                   build_vars, pkvars, hvars>>

SetReactions ==
    /\ pc = "chain_species" /\ k = n_chain
    /\ reactions' = reactions_list
    /\ parameters' = parameters \o reactions_pars
    /\ extent' = WithZero(<<>>, reactions_list)
    /\ pc' = "chain_reactions" /\ k' = 0
    /\ UNCHANGED <<compartments, species, rate_rules, amount, build_vars, pkvars, hvars>>

AppendChainReaction ==
    /\ pc = "chain_reactions" /\ k < n_chain
    /\ reactions' = Append(reactions, chain_reaction(k))
    /\ extent' = WithZero(extent, <<chain_reaction(k)>>)
    /\ k' = k + 1
    /\ UNCHANGED <<pc, compartments, parameters, species, rate_rules, amount,
                   build_vars, pkvars, hvars>>

ExtendParameters ==
    /\ pc = "chain_reactions" /\ k = n_chain
    /\ parameters' = parameters \o
            << Parameter("PODOSE_rap", 0, 1, "mg"),
               Parameter("Ka_dis_rap", Ka_dis_rap, 1, "per_hr"),
               Parameter("Mr_rap", Mr_rap, 1, "g_per_mole") >>
    /\ PODOSE_rap' = 0
    /\ pc' = "dissolution"
    /\ UNCHANGED <<model_sid, k, compartments, species, reactions, rate_rules, amount,
                   extent, dose0, extent0, administered, pkvars, hvars>>

ExtendReactions ==
    /\ pc = "dissolution"
    /\ reactions' = Append(reactions,
            Reaction("dissolution_rap", "rap_stomach", "rap_lumen", "Vgu", Dissolution))
    /\ extent' = WithZero(extent, <<[sid |-> "dissolution_rap"]>>)
    /\ pc' = "rate_rules"
    /\ UNCHANGED <<k, compartments, parameters, species, rate_rules, amount,
                   build_vars, pkvars, hvars>>

AppendRateRule ==
    /\ pc = "rate_rules"
    /\ rate_rules' = Append(rate_rules, podose_rate_rule)
    /\ pc' = "model"
    /\ UNCHANGED <<k, compartments, parameters, species, reactions, amount, extent,
                   build_vars, pkvars, hvars>>

(***************************************************************************)
(* Integration of the intestine submodel.                                  *)
(*                                                                         *)
(* A simulation is a Timecourse(start=0, end=tend, steps=steps, changes):   *)
(* its changes are applied, then the model is integrated with one output   *)
(* every tend/steps minutes.  Between two outputs the solver, which is not *)
(* part of the repository, takes steps of a length it chooses.  The        *)
(* reaction network is integrated reaction by reaction: a step takes one   *)
(* reaction over one step of the solver and converts rate * step_size of   *)
(* its reactant into its product, rounded to whole quanta either way.  A   *)
(* step of the solver is the output step divided by a whole number: at     *)
(* least so often that the step converts no more than the pool the rate    *)
(* law draws on holds, and any number of Subdivisions further.             *)
(***************************************************************************)
MaxDose == 3         \* total administered dose, in quanta of amount
Subdivisions == {1, 3}

Lookup(list, sid) == list[CHOOSE i \in DOMAIN list : list[i].sid = sid]

ParValue(pars, id) == Lookup(pars, id).value

RECURSIVE Product(_, _)
Product(pars, ids) ==
    IF ids = <<>> THEN Frac(1, 1)
    ELSE FMul(ParValue(pars, Head(ids)), Product(pars, Tail(ids)))

\* value of a compartment symbol [l]
Volume(c) == Frac(Lookup(compartments, c).value, VolumeScale)

\* value of a species symbol in a formula: the concentration [quanta/l], or the
\* amount for a species with hasOnlySubstanceUnits
SymbolValue(amt, sp) ==
    IF Lookup(species, sp).hasOnlySubstanceUnits THEN Frac(amt[sp], 1)
    ELSE FDiv(Frac(amt[sp], 1), Volume(Lookup(species, sp).compartment))

\* value of the formula of reaction r [quanta/min] for the parameter values
\* pars, the amounts amt and the remaining dose podose
RECURSIVE rate_of(_, _, _, _)
rate_of(r, pars, amt, podose) ==
    LET f == r.formula IN
    CASE f.kind = "dissolution" ->
            FMul(FDiv(ParValue(pars, f.rate_k), Frac(min_per_hr, 1)),
                 FDiv(Frac(podose, 1), ParValue(pars, "Mr_rap")))
      [] f.kind = "linear" ->
            FMul(FMul(Product(pars, f.factors), ParValue(pars, f.rate_k)),
                 FMul(Volume(f.volume), SymbolValue(amt, f.sp)))
      [] f.kind = "exchange" ->
            FMul(FMul(ParValue(pars, f.rate_k), Volume(f.volume)),
                 FSub(SymbolValue(amt, f.sp), SymbolValue(amt, f.sp2)))
      [] f.kind = "michaelis_menten" ->
            FMul(FMul(Product(pars, f.factors), ParValue(pars, f.vmax)),
                 FMul(Volume(f.volume),
                      FDiv(SymbolValue(amt, f.sp),
                           FAdd(SymbolValue(amt, f.sp), ParValue(pars, f.km)))))
      [] f.kind = "flux" ->
            rate_of(Lookup(reactions, f.reaction), pars, amt, podose)

\* the identifiers that appear in a formula
Symbols(f) ==
    CASE f.kind = "dissolution" -> {f.rate_k, f.sp, "Mr_rap"}
      [] f.kind = "linear" -> Range(f.factors) \cup {f.rate_k, f.volume, f.sp}
      [] f.kind = "exchange" -> {f.rate_k, f.volume, f.sp, f.sp2}
      [] f.kind = "michaelis_menten" ->
            Range(f.factors) \cup {f.vmax, f.volume, f.sp, f.km}
      [] f.kind = "flux" -> {f.reaction}

\* the identifiers that appear in the formula of a rate rule
RuleSymbols(rule) ==
    {rule.reaction} \cup (IF Abs(rule.factor) = Mr_rap THEN {"Mr_rap"} ELSE {})

\* rate of a reaction in the current state
rate(r) == rate_of(r, parameters, amount, PODOSE_rap)

\* Timecourse(start=0, end=self.tend, steps=self.steps): the time between two
\* outputs [min]
output_step == Frac(tend, steps)

\* the pool [quanta] the rate law of reaction r draws on while its rate is a:
\* the remaining dose for the dissolution, else the species of the formula
\* that drives the rate (of an exchange the one with the higher level)
pool(r, a) ==
    LET f == IF r.formula.kind = "flux"
             THEN Lookup(reactions, r.formula.reaction).formula ELSE r.formula
    IN  IF f.kind = "dissolution"
        THEN FDiv(Frac(PODOSE_rap, 1), ParValue(parameters, "Mr_rap"))
        ELSE IF f.kind = "exchange" /\ a.num < 0 THEN Frac(amount[f.sp2], 1)
             ELSE Frac(amount[f.sp], 1)

\* the smallest number of equal parts of the output step over which reaction r
\* converts at the rate a no more than its pool holds
substeps(r, a) ==
    CHOOSE n \in { IF p.num <= 0 THEN 1
                   ELSE LET q == FDiv(FMul(Frac(Abs(a.num), a.den), output_step), p)
                        IN  IF q.num <= q.den THEN 1
                            ELSE IF q.num % q.den = 0 THEN q.num \div q.den
                                 ELSE q.num \div q.den + 1
                   : p \in {pool(r, a)} } : TRUE

\* length of a step of the solver on reaction r [min]
step_size(r, a, m) == FDiv(output_step, Frac(substeps(r, a) * m, 1))

\* q rounded to a whole number: down, or up where the pool p holds as much
rounded(q, p, up) ==
    LET lo == q.num \div q.den
    IN  IF up /\ q.num % q.den # 0 /\ (lo + 1) * p.den <= p.num THEN lo + 1 ELSE lo

\* amount converted in one step of the solver, rounded to whole quanta
converted(r, m, up) ==
    CHOOSE c \in { rounded(FMul(a, step_size(r, a, m)), pool(r, a), up)
                   : a \in {rate(r)} } : TRUE

\* after_reaction with the product formed twice over
after_reaction_double_product(amt, r, moved) ==
    [sp \in DOMAIN amt |->
        IF Lookup(species, sp).boundaryCondition THEN amt[sp]
        ELSE amt[sp] - (IF sp = r.reactant THEN moved ELSE 0)
                     + (IF sp = r.product THEN 2 * moved ELSE 0)]

\* after_reaction with the boundary condition ignored
after_reaction_boundary_evolved(amt, r, moved) ==
    [sp \in DOMAIN amt |->
        amt[sp] - (IF sp = r.reactant THEN moved ELSE 0)
                + (IF sp = r.product THEN moved ELSE 0)]

\* change of the pools amt by a reaction converting `moved`: boundary species
\* are not changed by reactions
after_reaction(amt, r, moved) ==
    [sp \in DOMAIN amt |->
        IF Lookup(species, sp).boundaryCondition THEN amt[sp]
        ELSE amt[sp] - (IF sp = r.reactant THEN moved ELSE 0)
                     + (IF sp = r.product THEN moved ELSE 0)]

\* reaction r with the reactions whose formula is the rate of r
with_followers(r) ==
    SelectSeq(reactions,
              LAMBDA q : q.sid = r.sid
                         \/ (q.formula.kind = "flux" /\ q.formula.reaction = r.sid))

RECURSIVE after_reactions(_, _, _)
after_reactions(amt, rs, moved) ==
    IF rs = <<>> THEN amt
    ELSE after_reactions(after_reaction(amt, Head(rs), moved), Tail(rs), moved)

\* change of a rule variable while reaction r converts `moved`
RECURSIVE rule_change(_, _, _, _)
rule_change(rules, variable, r, moved) ==
    IF rules = <<>> THEN 0
    ELSE (IF Head(rules).variable = variable /\ Head(rules).reaction = r.sid
          THEN Head(rules).factor * moved ELSE 0)
         + rule_change(Tail(rules), variable, r, moved)

InitGU ==
    /\ model_sid = "rapamycin_intestine"
    /\ pc = "compartments" /\ k = 0
    /\ compartments = <<>> /\ parameters = <<>> /\ species = <<>>
    /\ reactions = <<>> /\ rate_rules = <<>>
    /\ amount = <<>> /\ extent = <<>>
    /\ PODOSE_rap = 0 /\ dose0 = 0 /\ extent0 = 0 /\ administered = 0
    /\ results = [s \in SimKeys |-> NoResult]
    /\ runs = 0
    /\ last_op = "none"
    /\ raised = "none"
    /\ table_of = [s \in SimKeys |-> NoValue]
    /\ calculator_nd = "raise"
    /\ RunIdle
    /\ ExtractIdle
    /\ FitIdle
    /\ SimIdle

ActivityFactors == { q.sid : q \in { x \in Range(parameters) : x.unit = "dimensionless" } }

DefaultFactors == \A f \in ActivityFactors : ParValue(parameters, f) = Frac(1, 1)

\* The whole-body model holds the parameters of the intestine under the
\* prefix GU__, of the liver under LI__ and of the kidney under KI__: the
\* parameter of a submodel that a parameter id of a simulation's changes sets.
\* An id that is not listed (PODOSE_rap, ftissue_rap, Kp_rap, f_cirrhosis) is a
\* parameter of the whole-body model itself.
submodel_parameter ==
    [GU__RAPIM_k |-> [model |-> "rapamycin_intestine", sid |-> "RAPIM_k"],
     GU__RAP2RX_k |-> [model |-> "rapamycin_intestine", sid |-> "RAP2RX_k"],
     GU__RXPG_k |-> [model |-> "rapamycin_intestine", sid |-> "RXPG_k"],
     GU__RXEXC_k |-> [model |-> "rapamycin_intestine", sid |-> "RXEXC_k"],
     KI__RXEX_k |-> [model |-> "rapamycin_kidney", sid |-> "RXEX_k"],
     LI__RAP2RX_Vmax |-> [model |-> "rapamycin_liver", sid |-> "RAP2RX_Vmax"],
     LI__RXBEX_k |-> [model |-> "rapamycin_liver", sid |-> "RXBEX_k"],
     GU__f_oatp |-> [model |-> "rapamycin_intestine", sid |-> "f_oatp"],
     GU__f_cyp3a4 |-> [model |-> "rapamycin_intestine", sid |-> "f_cyp3a4"],
     GU__f_cyp3a5 |-> [model |-> "rapamycin_intestine", sid |-> "f_cyp3a5"],
     LI__f_cyp3a4 |-> [model |-> "rapamycin_liver", sid |-> "f_cyp3a4"],
     LI__f_cyp3a5 |-> [model |-> "rapamycin_liver", sid |-> "f_cyp3a5"],
     KI__f_renal_function |-> [model |-> "rapamycin_kidney",
                               sid |-> "f_renal_function"]]

\* _default_changes: the magnitudes of the changes that reach a submodel, in
\* the units of the submodel's parameters ([1/min]; RAP2RX_Vmax in
\* [quanta/min/l]) and rounded to four significant digits
default_changes_rounded ==
    [GU__RAPIM_k |-> Frac(1025, 100000),        \* 0.010254172647171959
     GU__RAP2RX_k |-> Frac(4337, 10000),        \* 0.43373578546152136
     GU__RXPG_k |-> Frac(1033, 100000),         \* 0.010328378821077363
     GU__RXEXC_k |-> Frac(2335, 100000),        \* 0.023347411187126337
     KI__RXEX_k |-> Frac(1693, 10000),          \* 0.1693055659116988
     LI__RAP2RX_Vmax |-> Frac(2859, 1000),      \* 0.002858932837010464 mmole/min/l
     LI__RXBEX_k |-> Frac(227, 100000000)]      \* 2.2698133102257085e-06

\* the ids of `changes` that set parameter q of the submodel sid
ids_of(changes, sid, q) ==
    { x \in DOMAIN changes \cap DOMAIN submodel_parameter :
          submodel_parameter[x] = [model |-> sid, sid |-> q] }

\* the parameters pars of submodel sid after the changes of a simulation
with_changes(pars, sid, changes) ==
    [i \in DOMAIN pars |->
        IF ids_of(changes, sid, pars[i].sid) # {}
        THEN [pars[i] EXCEPT
                 !.value = changes[CHOOSE x \in ids_of(changes, sid, pars[i].sid) : TRUE]]
        ELSE pars[i]]

\* the parameters of the loaded submodel hold the values of default_changes_rounded
DefaultChanges == parameters = with_changes(parameters, model_sid, default_changes_rounded)

\* A dosing segment starts: its changes {**default_changes(), "PODOSE_rap": dose}
\* set the fitted parameters and set PODOSE_rap to the dose.
StartSegment(d) ==
    /\ pc = "model"
    /\ "PODOSE_rap" \in Ids(parameters)
    /\ administered + d <= MaxDose
    /\ parameters' = with_changes(parameters, model_sid, default_changes_rounded)
    /\ PODOSE_rap' = d * Mr_rap
    /\ dose0' = d * Mr_rap
    /\ extent0' = extent["dissolution_rap"]
    /\ administered' = administered + d
    /\ UNCHANGED <<model_sid, pc, k, compartments, species, reactions,
                   rate_rules, amount, extent, pkvars, hvars>>

\* a reaction with a non-zero rate in the current state
Active(i) == rate(reactions[i]).num # 0

\* One integration step of reaction number i, together with the reactions and
\* rules that are defined by its rate.  A step that converts nothing leaves
\* the state as it is.
Step(i, m, up) ==
    \E r \in {reactions[i]} : \E moved \in {converted(r, m, up)} :
    LET rs == with_followers(r)
    IN  /\ pc = "model"
        /\ r.formula.kind # "flux"
        /\ moved # 0
        /\ amount' = after_reactions(amount, rs, moved)
        /\ extent' = [x \in DOMAIN extent |->
                          IF x \in Ids(rs) THEN extent[x] + moved ELSE extent[x]]
        /\ PODOSE_rap' = PODOSE_rap + rule_change(rate_rules, "PODOSE_rap", r, moved)
        /\ UNCHANGED <<model_sid, pc, k, compartments, parameters, species, reactions,
                       rate_rules, dose0, extent0, administered, pkvars, hvars>>

BuildGU ==
    \/ SetCompartments
    \/ SetParameters
    \/ AppendChainCompartment
    \/ SetSpecies
    \/ AppendChainSpecies
    \/ SetReactions
    \/ AppendChainReaction
    \/ ExtendParameters
    \/ ExtendReactions
    \/ AppendRateRule

Integrate ==
    \E i \in DOMAIN reactions :
        Active(i) /\ \E m \in Subdivisions, up \in BOOLEAN : Step(i, m, up)

NextGU ==
    \/ BuildGU
    \/ \E d \in 0..MaxDose : StartSegment(d)
    \/ Integrate

SpecGU == InitGU /\ [][NextGU]_vars

\* The integrator advances every rate law over the whole time course: the
\* dissolution step is taken as long as it converts something.
Dissolve ==
    /\ pc = "model"
    /\ PODOSE_rap > 0
    /\ \E i \in DOMAIN reactions :
          /\ reactions[i].sid = "dissolution_rap"
          /\ \E m \in Subdivisions, up \in BOOLEAN : Step(i, m, up)

SpecGUFair == SpecGU /\ WF_vars(Dissolve)

(***************************************************************************)
(* model_liver.py: declarations                                            *)
(*                                                                         *)
(* RAP2RX_Vmax [mmole/min/l] and RAP2RX_Km_rap [mM] are converted to       *)
(* quanta with AmountScale quanta per mmole.                               *)
(***************************************************************************)
AmountScale == 1000
FineScale == 10000

li_Vext == 150000        \* 1.5 l
Vli == 150000            \* 1.5 l
Vbi == 100000            \* 1.0 l
li_Vlumen == 115425      \* 1.2825 * 0.9 l

RXBEX_k == 1             \* 0.0001 per min, in 1/FineScale per min
li_RAPIM_k == 10000      \* 100.0 per min
RAP2RX_Vmax == 2         \* 0.02 mmole/min/l
RAP2RX_Km_rap == 29      \* 2.9E-3 mM, in 1/FineScale mM
li_f_cyp3a4 == 10        \* 1
li_f_cyp3a5 == 10        \* 1
li_RXEX_k == 10000       \* 100.0 per min

\* rate laws of the liver:
\*   exchange:          rate constant * volume * (species - species2)
\*   michaelis_menten:  (product of factors) * Vmax * volume * species/(species + Km)
\*   flux:              the rate of another reaction
Exchange(rate_k, volume, sp, sp2) ==
    [kind |-> "exchange", factors |-> <<>>, rate_k |-> rate_k, volume |-> volume,
     sp |-> sp, sp2 |-> sp2]

MichaelisMenten(factors, vmax, volume, sp, km) ==
    [kind |-> "michaelis_menten", factors |-> factors, vmax |-> vmax,
     volume |-> volume, sp |-> sp, km |-> km]

Flux(reaction) == [kind |-> "flux", factors |-> <<>>, reaction |-> reaction]

\* _m.compartments = [...]
li_compartments_list ==
    << Compartment("Vext", li_Vext, FALSE, TRUE),
       Compartment("Vli", Vli, FALSE, TRUE),
       Compartment("Vmem", 0, TRUE, TRUE),
       Compartment("Vapical", 0, TRUE, TRUE),
       Compartment("Vbi", Vbi, FALSE, TRUE),
       Compartment("Vlumen", li_Vlumen, FALSE, FALSE) >>

\* li_species_list with the bile pool placed on the apical membrane
li_species_list_bile_on_membrane ==
    << Species("rap_ext", "Vext", FALSE, FALSE),
       Species("rx_ext", "Vext", FALSE, FALSE),
       Species("rap", "Vli", FALSE, FALSE),
       Species("rx", "Vli", FALSE, FALSE),
       Species("rx_bi", "Vapical", TRUE, FALSE),
       Species("rx_lumen", "Vlumen", FALSE, FALSE) >>

\* _m.species = [...]
li_species_list ==
    << Species("rap_ext", "Vext", FALSE, FALSE),
       Species("rx_ext", "Vext", FALSE, FALSE),
       Species("rap", "Vli", FALSE, FALSE),
       Species("rx", "Vli", FALSE, FALSE),
       Species("rx_bi", "Vbi", TRUE, FALSE),
       Species("rx_lumen", "Vlumen", FALSE, FALSE) >>

\* _m.parameters = [...]
li_parameters_list ==
    << Parameter("RXBEX_k", RXBEX_k, FineScale, "per_min") >>

\* the parameters declared in the `pars` of the reactions, in order
li_reactions_pars ==
    << Parameter("RAPIM_k", li_RAPIM_k, RateScale, "per_min"),
       Parameter("RAP2RX_Vmax", RAP2RX_Vmax * AmountScale, RateScale, "mmole_per_min_l"),
       Parameter("RAP2RX_Km_rap", RAP2RX_Km_rap * AmountScale, FineScale, "mM"),
       Parameter("f_cyp3a4", li_f_cyp3a4, FactorScale, "dimensionless"),
       Parameter("f_cyp3a5", li_f_cyp3a5, FactorScale, "dimensionless"),
       Parameter("RXEX_k", li_RXEX_k, RateScale, "per_min") >>

\* the formula of RAP2RX without the saturation term
li_RAP2RX_formula_unsaturated ==
    Linear(<<"f_cyp3a4", "f_cyp3a5">>, "RAP2RX_Vmax", "Vli", "rap")

\* formula of RAP2RX:
\*   "f_cyp3a4 * f_cyp3a5 * RAP2RX_Vmax * Vli * rap/(rap + RAP2RX_Km_rap)"
li_RAP2RX_formula ==
    MichaelisMenten(<<"f_cyp3a4", "f_cyp3a5">>, "RAP2RX_Vmax", "Vli", "rap",
                    "RAP2RX_Km_rap")

\* the formula of RXEHC taking the flux of the biliary export
RXEHC_formula_biliary == Flux("RXBEX")

\* formula of RXEHC: ("RXEX", U.mmole_per_min)
RXEHC_formula == Flux("RXEX")

\* li_reactions_list without the enterohepatic circulation
li_reactions_list_without_recirculation ==
    << Reaction("RAPIM", "rap_ext", "rap", "Vmem",
                Exchange("RAPIM_k", "Vli", "rap_ext", "rap")),
       Reaction("RAP2RX", "rap", "rx", "Vli", li_RAP2RX_formula),
       Reaction("RXEX", "rx", "rx_ext", "Vmem",
                Exchange("RXEX_k", "Vli", "rx", "rx_ext")),
       Reaction("RXBEX", "rx", "rx_bi", "Vapical",
                Linear(<<>>, "RXBEX_k", "Vli", "rx")) >>

\* _m.reactions = [...]
li_reactions_list ==
    << Reaction("RAPIM", "rap_ext", "rap", "Vmem",
                Exchange("RAPIM_k", "Vli", "rap_ext", "rap")),
       Reaction("RAP2RX", "rap", "rx", "Vli", li_RAP2RX_formula),
       Reaction("RXEX", "rx", "rx_ext", "Vmem",
                Exchange("RXEX_k", "Vli", "rx", "rx_ext")),
       Reaction("RXBEX", "rx", "rx_bi", "Vapical",
                Linear(<<>>, "RXBEX_k", "Vli", "rx")),
       Reaction("RXEHC", "rx_bi", "rx_lumen", "Vlumen", RXEHC_formula) >>

(***************************************************************************)
(* model_kidney.py: declarations                                           *)
(***************************************************************************)
ki_Vext == 150000        \* 1.5 l
Vki == 30000             \* 0.3 l
Vurine == 100000         \* 1.0 l
f_renal_function == 10   \* 1.0
ki_RXEX_k == 100         \* 1.0 per min

\* _m.compartments = [...]
ki_compartments_list ==
    << Compartment("Vext", ki_Vext, FALSE, TRUE),
       Compartment("Vki", Vki, FALSE, TRUE),
       Compartment("Vmem", 0, TRUE, TRUE),
       Compartment("Vurine", Vurine, FALSE, TRUE) >>

\* ki_species_list with the compartment of the urine pool misspelt
ki_species_list_misspelt_compartment ==
    << Species("rx_ext", "Vext", FALSE, FALSE),
       Species("rx_urine", "Vurin", TRUE, FALSE) >>

\* _m.species = [...]
ki_species_list ==
    << Species("rx_ext", "Vext", FALSE, FALSE),
       Species("rx_urine", "Vurine", TRUE, FALSE) >>

\* the formula of RXEX without the renal function
ki_RXEX_formula_unscaled == Linear(<<>>, "RXEX_k", "Vki", "rx_ext")

\* formula of RXEX: "f_renal_function * RXEX_k * Vki * rx_ext"
ki_RXEX_formula == Linear(<<"f_renal_function">>, "RXEX_k", "Vki", "rx_ext")

\* _m.reactions = [...]
ki_reactions_list ==
    << Reaction("RXEX", "rx_ext", "rx_urine", "Vki", ki_RXEX_formula) >>

(***************************************************************************)
(* model_liver.py and model_kidney.py: the statements of the modules       *)
(***************************************************************************)
li_SetCompartments ==
    /\ pc = "li_compartments"
    /\ compartments' = li_compartments_list
    /\ pc' = "li_species"
    /\ UNCHANGED <<k, parameters, species, reactions, rate_rules, amount, extent,
                   build_vars, pkvars, hvars>>

li_SetSpecies ==
    /\ pc = "li_species"
    /\ species' = li_species_list
    /\ amount' = WithZero(<<>>, li_species_list)
    /\ pc' = "li_parameters"
    /\ UNCHANGED <<k, compartments, parameters, reactions, rate_rules, extent,
                   build_vars, pkvars, hvars>>

li_SetParameters ==
    /\ pc = "li_parameters"
    /\ parameters' = li_parameters_list
    /\ pc' = "li_reactions"
    /\ UNCHANGED <<k, compartments, species, reactions, rate_rules, amount, extent,
                   build_vars, pkvars, hvars>>

li_SetReactions ==
    /\ pc = "li_reactions"
    /\ reactions' = li_reactions_list
    /\ parameters' = parameters \o li_reactions_pars
    /\ extent' = WithZero(<<>>, li_reactions_list)
    /\ pc' = "model"
    /\ UNCHANGED <<k, compartments, species, rate_rules, amount, build_vars, pkvars, hvars>>

ki_SetCompartments ==
    /\ pc = "ki_compartments"
    /\ compartments' = ki_compartments_list
    /\ pc' = "ki_species"
    /\ UNCHANGED <<k, parameters, species, reactions, rate_rules, amount, extent,
                   build_vars, pkvars, hvars>>

ki_SetSpecies ==
    /\ pc = "ki_species"
    /\ species' = ki_species_list
    /\ amount' = WithZero(<<>>, ki_species_list)
    /\ pc' = "ki_parameters"
    /\ UNCHANGED <<k, compartments, parameters, reactions, rate_rules, extent,
                   build_vars, pkvars, hvars>>

\* _m.parameters.append(Parameter("f_renal_function", ...))
ki_AppendParameter ==
    /\ pc = "ki_parameters"
    /\ parameters' = Append(parameters,
            Parameter("f_renal_function", f_renal_function, FactorScale, "dimensionless"))
    /\ pc' = "ki_reactions"
    /\ UNCHANGED <<k, compartments, species, reactions, rate_rules, amount, extent,
                   build_vars, pkvars, hvars>>

ki_SetReactions ==
    /\ pc = "ki_reactions"
    /\ reactions' = ki_reactions_list
    /\ parameters' = Append(parameters, Parameter("RXEX_k", ki_RXEX_k, RateScale, "per_min"))
    /\ extent' = WithZero(<<>>, ki_reactions_list)
    /\ pc' = "model"
    /\ UNCHANGED <<k, compartments, species, rate_rules, amount, build_vars, pkvars, hvars>>

(***************************************************************************)
(* Simulation of a submodel: the changes a simulation applies to the       *)
(* loaded model, and the drug that reaches it through its plasma ports.    *)
(***************************************************************************)
ModelSids == {"rapamycin_intestine", "rapamycin_liver", "rapamycin_kidney"}

first_statement(sid) ==
    CASE sid = "rapamycin_intestine" -> "compartments"
      [] sid = "rapamycin_liver" -> "li_compartments"
      [] sid = "rapamycin_kidney" -> "ki_compartments"

\* values a scan gives an activity factor: those of the range 0.1 ... 10.0
\* that are whole powers of ten
FactorValues == { Pow10(e) : e \in { x \in Range(activity_range) : x.den = 1 } }

\* the parameters of submodel sid that a scan of scan_map varies
scanned(sid) ==
    { submodel_parameter[x].sid :
        x \in { y \in { scan_map[key].parameter : key \in Range(scan_keys) }
                      \cap DOMAIN submodel_parameter :
                  submodel_parameter[y].model = sid } }

\* the ids of all scanned parameters of the submodels
FactorIds == UNION { scanned(sid) : sid \in ModelSids }

with_change(pars, id, value) ==
    [i \in DOMAIN pars |->
        IF pars[i].sid = id THEN [pars[i] EXCEPT !.value = value] ELSE pars[i]]

\* A scan of the intestine: the changes of its Timecourse set the fitted
\* parameters and the oral dose dose_rap [mg], the changes of its Dimension set
\* one value of the scanned activity factor.  The dose holds `administered`
\* whole quanta.
StartScan(id, v) ==
    /\ pc = "model"
    /\ "PODOSE_rap" \in Ids(parameters)
    /\ administered = 0
    /\ id \in scanned(model_sid)
    /\ DefaultFactors
    /\ parameters' = with_change(with_changes(parameters, model_sid, default_changes_rounded),
                                 id, v)
    /\ PODOSE_rap' = dose_rap * 10 ^ 7
    /\ dose0' = dose_rap * 10 ^ 7
    /\ extent0' = extent["dissolution_rap"]
    /\ administered' = (dose_rap * 10 ^ 7) \div Mr_rap
    /\ UNCHANGED <<model_sid, pc, k, compartments, species, reactions, rate_rules,
                   amount, extent, pkvars, hvars>>

\* A scan of a submodel without an oral dose: the changes of its Timecourse
\* set the fitted parameters, the changes of its Dimension one value of the
\* scanned activity factor, before the drug arrives.
Changes(id, v) ==
    /\ pc = "model"
    /\ "PODOSE_rap" \notin Ids(parameters)
    /\ administered = 0
    /\ id \in scanned(model_sid)
    /\ DefaultFactors
    /\ parameters' = with_change(with_changes(parameters, model_sid, default_changes_rounded),
                                 id, v)
    /\ UNCHANGED <<model_sid, pc, k, compartments, species, reactions, rate_rules,
                   amount, extent, PODOSE_rap, dose0, extent0, administered, pkvars, hvars>>

\* The plasma species are ports: in a submodel without an oral dose the drug
\* arrives through them, once the changes of the simulation are applied.
Inflow(sp, d) ==
    /\ pc = "model"
    /\ "PODOSE_rap" \notin Ids(parameters)
    /\ DefaultChanges
    /\ sp \in {"rap_ext", "rx_ext"} \cap Ids(species)
    /\ administered + d <= MaxDose
    /\ amount' = [amount EXCEPT ![sp] = @ + d]
    /\ administered' = administered + d
    /\ UNCHANGED <<model_sid, pc, k, compartments, parameters, species, reactions,
                   rate_rules, extent, PODOSE_rap, dose0, extent0, pkvars, hvars>>

InitModels ==
    /\ model_sid \in ModelSids
    /\ pc = first_statement(model_sid) /\ k = 0
    /\ compartments = <<>> /\ parameters = <<>> /\ species = <<>>
    /\ reactions = <<>> /\ rate_rules = <<>>
    /\ amount = <<>> /\ extent = <<>>
    /\ PODOSE_rap = 0 /\ dose0 = 0 /\ extent0 = 0 /\ administered = 0
    /\ results = [s \in SimKeys |-> NoResult]
    /\ runs = 0
    /\ last_op = "none"
    /\ raised = "none"
    /\ table_of = [s \in SimKeys |-> NoValue]
    /\ calculator_nd = "raise"
    /\ RunIdle
    /\ ExtractIdle
    /\ FitIdle
    /\ SimIdle

NextModels ==
    \/ BuildGU
    \/ li_SetCompartments
    \/ li_SetSpecies
    \/ li_SetParameters
    \/ li_SetReactions
    \/ ki_SetCompartments
    \/ ki_SetSpecies
    \/ ki_AppendParameter
    \/ ki_SetReactions
    \/ \E id \in FactorIds, v \in FactorValues : StartScan(id, v)
    \/ \E id \in FactorIds, v \in FactorValues : Changes(id, v)
    \/ \E sp \in {"rap_ext", "rx_ext"}, d \in 1..MaxDose : Inflow(sp, d)
    \/ Integrate

SpecModels == InitModels /\ [][NextModels]_vars

(***************************************************************************)
(* Properties of the PK extraction (SpecPK)                                *)
(***************************************************************************)
OneD(s) == results[s] # NoResult /\ Len(redop_dims(results[s])) = 1
Extracted(s) == results[s] # NoResult /\ table_of[s] # NoValue

RowsOf(t, substance, sid, coordinate) ==
    { i \in 1..Len(t) : /\ t[i].substance = substance
                        /\ t[i].concentration.sid = sid
                        /\ t[i].concentration.sel = coordinate }

\* C1: for a 1-D scan result with k coordinates (k = length of the PODOSE_rap
\* vector at the first time point) the extraction returns a table of exactly 2k
\* rows: k labelled 'rap' and k labelled 'rx', exactly one per pair of scan
\* coordinate and analyte.
C1_RowPerCoordinateAndAnalyte ==
    \A s \in SimKeys :
        OneD(s) /\ Extracted(s) =>
            LET t == table_of[s].table
                kk == Len(results[s].PODOSE_rap[1])
            IN  /\ table_of[s].raised = "none"
                /\ Len(t) = 2 * kk
                /\ Cardinality({ i \in 1..Len(t) : t[i].substance = "rap" }) = kk
                /\ Cardinality({ i \in 1..Len(t) : t[i].substance = "rx" }) = kk
                /\ \A c \in 0..(kk - 1) :
                      /\ Cardinality(RowsOf(t, "rap", "[Cveblood_rap]", c)) = 1
                      /\ Cardinality(RowsOf(t, "rx", "[Cve_rx]", c)) = 1

C1_Witness ==
    \E s \in SimKeys :
        /\ OneD(s) /\ Extracted(s)
        /\ redop_dims(results[s])[1] >= 2
        /\ Len(table_of[s].table) = 2 * redop_dims(results[s])[1]

\* C2: an extraction on a scan result with two or more scan dimensions raises
\* the unsupported-scan error and returns no table.
C2_ScanDimensionGuard ==
    df # NoValue /\ Len(redop_dims(xres_arg)) >= 2 =>
        /\ df.raised = "UnsupportedScanError"
        /\ df.table = <<>>

\* C3: the calculator is handed a dose if and only if the row's analyte is the
\* parent drug: every 'rap' row is computed with a dose, every 'rx' row with
\* None, and clearance and volume of distribution are populated on 'rap' rows
\* only.
C3_DoseIffParentDrug ==
    \A s \in SimKeys :
        Extracted(s) =>
            \A i \in 1..Len(table_of[s].table) :
                LET row == table_of[s].table[i]
                IN  /\ row.substance \in {"rap", "rx"}
                    /\ (row.dose.kind # "None") <=> (row.substance = "rap")
                    /\ row.substance = "rx" => row.dose = NoDose
                    /\ (row.cl # "undefined" \/ row.vd # "undefined")
                          => row.substance = "rap"

C3_Witness ==
    \E s \in SimKeys :
        /\ Extracted(s)
        /\ \E i, j \in 1..Len(table_of[s].table) :
              /\ table_of[s].table[i].substance = "rap"
              /\ table_of[s].table[i].cl = "from dose"
              /\ table_of[s].table[j].substance = "rx"
              /\ table_of[s].table[j].cl = "undefined"

\* C5: calculate_rapamycin_pk has no side effects: whatever calls were made
\* before, a call leaves the stored results (every array of every scan result)
\* and the number of simulations run as they were, and an extraction of a
\* result that was extracted before yields the table it yielded before.
C5_NoSideEffects ==
    [][ last_op' = "calculate_rapamycin_pk" =>
            /\ results' = results
            /\ runs' = runs
            /\ \A s \in SimKeys :
                  table_of[s] # NoValue /\ table_of'[s] # NoValue
                      => table_of'[s] = table_of[s] ]_vars

C5_Witness ==
    /\ last_op = "calculate_rapamycin_pk"
    /\ raised = "none"
    /\ \A s \in SimKeys : Extracted(s) /\ Len(table_of[s].table) >= 2

\* C21: the rows of the table are in scan-coordinate order per analyte: for a
\* scan with kk coordinates, row i is the 'rap' row of coordinate i and row
\* kk + i is the 'rx' row of coordinate i (0 <= i < kk), so all parent-drug
\* rows precede all metabolite rows.
C21_RowsInCoordinateOrder ==
    \A s \in SimKeys :
        OneD(s) /\ Extracted(s) =>
            LET t == table_of[s].table
                kk == redop_dims(results[s])[1]
            IN  /\ Len(t) = 2 * kk
                /\ \A i \in 0..(kk - 1) :
                      /\ t[i + 1].substance = "rap"
                      /\ t[i + 1].concentration
                            = c_vec(results[s], "[Cveblood_rap]", i)
                      /\ t[kk + i + 1].substance = "rx"
                      /\ t[kk + i + 1].concentration = c_vec(results[s], "[Cve_rx]", i)
                /\ \A i, j \in 1..Len(t) :
                      t[i].substance = "rap" /\ t[j].substance = "rx" => i < j

\* a dose scan of two different doses was extracted: the second row is the
\* parent-drug row of the second coordinate
C21_Witness ==
    \E s \in SimKeys :
        /\ OneD(s) /\ Extracted(s)
        /\ redop_dims(results[s])[1] = 2
        /\ dose_vec(results[s])[1] # dose_vec(results[s])[2]
        /\ table_of[s].table[2].substance = "rap"
        /\ table_of[s].table[2].concentration.sel = 1
        /\ table_of[s].table[3].substance = "rx"
        /\ table_of[s].table[3].concentration.sel = 0

\* C22: the dose of the parent-drug row of coordinate j is PODOSE_rap at the
\* first time point of coordinate j divided by the molecular weight: the
\* administered dose, not the depleted value of a later time point; in a scan
\* of another parameter than PODOSE_rap every coordinate gets the same base
\* dose.
C22_AdministeredDose ==
    \A s \in SimKeys :
        OneD(s) /\ Extracted(s) =>
            LET t == table_of[s].table
                x == results[s]
            IN  \A j \in 1..redop_dims(x)[1] :
                    /\ t[j].dose.kind = "scalar"
                    /\ t[j].dose.mmole = << FDiv(x.PODOSE_rap[1][j][1], Mr.rap) >>
                    /\ FMul(t[j].dose.mmole[1], Mr.rap) = x.PODOSE_rap[1][j][1]
                    /\ \A tp \in 2..Len(x.PODOSE_rap) :
                          x.PODOSE_rap[tp][j] # x.PODOSE_rap[1][j]
                              => t[j].dose.mmole
                                    # << FDiv(x.PODOSE_rap[tp][j][1], Mr.rap) >>
                    /\ scan_parameter[s] # "PODOSE_rap"
                          => /\ t[j].dose = t[1].dose
                             /\ t[j].dose.mmole
                                   = << FDiv(Frac(dose_rap, 1), Mr.rap) >>

\* a scan of the absorption activity with two coordinates was extracted, the
\* dose having been used up by the last time point
C22_Witness ==
    \E s \in SimKeys :
        /\ scan_parameter[s] # "PODOSE_rap"
        /\ OneD(s) /\ Extracted(s)
        /\ redop_dims(results[s])[1] = 2
        /\ results[s].PODOSE_rap[2][2][1] = Frac(0, 1)
        /\ table_of[s].table[2].dose.mmole = << FDiv(Frac(dose_rap, 1), Mr.rap) >>

(***************************************************************************)
(* Properties of the intestine submodel (SpecGU)                           *)
(***************************************************************************)
RECURSIVE SumOver(_, _)
SumOver(f, S) ==
    IF S = {} THEN 0
    ELSE LET x == CHOOSE y \in S : TRUE IN f[x] + SumOver(f, S \ {x})

Consuming(sp) == { r \in Range(reactions) : r.reactant = sp }
Producing(sp) == { r \in Range(reactions) : r.product = sp }

\* cumulative amount that has left / entered a pool
Left(sp) == SumOver(extent, { r.sid : r \in Consuming(sp) })
Entered(sp) == SumOver(extent, { r.sid : r \in Producing(sp) })

Stages == <<"rx_int_0", "rx_int_1", "rx_int_2", "rx_int_3", "rx_int_4", "rx_feces">>
StageReactions == <<"RXEXC_0", "RXEXC_1", "RXEXC_2", "RXEXC_3", "RXEXC_4">>

\* C6: the transit chain is strictly linear: RXEXC_k has rx_int_k as its only
\* reactant and rx_int_(k+1) (rx_feces for k = 4) as its only product, and each
\* rx_int_k is the product of exactly one reaction and the reactant of exactly
\* one reaction.
C6_ChainStrictlyLinear ==
    pc = "model" =>
        \A i \in 1..5 :
            /\ Cardinality({ r \in Range(reactions) : r.sid = StageReactions[i] }) = 1
            /\ \A r \in Range(reactions) :
                  r.sid = StageReactions[i] =>
                      r.reactant = Stages[i] /\ r.product = Stages[i + 1]
            /\ Cardinality(Consuming(Stages[i])) = 1
            /\ Cardinality(Producing(Stages[i])) = 1

C6_Witness ==
    /\ pc = "model"
    /\ Len(reactions) = 11
    /\ \E r \in Range(reactions) : r.sid = "RXEXC_4" /\ r.product = "rx_feces"

\* C7: metabolite mass is conserved through the chain: for every stage the
\* cumulative amount that has left rx_int_k equals the cumulative amount that
\* has entered the next stage (rx_feces after rx_int_4), and the amount held by
\* the chain and the feces pool together equals the inflow from rx_lumen
\* through RXEXC.
C7_ChainMassConserved ==
    pc = "model" =>
        /\ \A i \in 1..5 :
              /\ Left(Stages[i]) = Entered(Stages[i + 1])
              /\ amount[Stages[i]] = Entered(Stages[i]) - Left(Stages[i])
        /\ SumOver(amount, Range(Stages)) = extent["RXEXC"]

C7_Witness ==
    /\ pc = "model"
    /\ extent["RXEXC_4"] > 0
    /\ \E i \in 1..5 : amount[Stages[i]] > 0

\* C8: the feces accumulator never decreases: in every step of the intestine
\* submodel the amount of rx_feces stays the same or grows.
C8_FecesNonDecreasing ==
    [][ pc = "model" => amount'["rx_feces"] >= amount["rx_feces"] ]_vars

C8_Witness ==
    pc = "model" /\ amount["rx_feces"] >= 2

\* C9: within a dosing segment that starts from a non-negative dose,
\* PODOSE_rap is non-negative at every time and never increases from one step
\* to the next.
C9_DoseNonNegativeNonIncreasing ==
    [][ pc = "model" =>
            /\ PODOSE_rap >= 0 /\ PODOSE_rap' >= 0
            /\ (dose0' = dose0 /\ administered' = administered)
                  => PODOSE_rap' <= PODOSE_rap ]_vars

C9_Witness ==
    pc = "model" /\ dose0 > 0 /\ PODOSE_rap > 0 /\ PODOSE_rap < dose0

\* C10: conservation across dissolution: at every time PODOSE_rap plus Mr_rap
\* times the molar amount dissolution_rap has delivered to rap_lumen since the
\* start of the segment equals the dose the segment started with.
C10_DissolutionConserved ==
    pc = "model" =>
        /\ PODOSE_rap + Mr_rap * (extent["dissolution_rap"] - extent0) = dose0
        /\ Entered("rap_lumen") = extent["dissolution_rap"]
        /\ amount["rap_lumen"] = Entered("rap_lumen") - Left("rap_lumen")

C10_Witness ==
    /\ pc = "model"
    /\ extent0 > 0
    /\ extent["dissolution_rap"] > extent0
    /\ PODOSE_rap > 0

\* C19: rap_stomach is a boundary species: it is the reactant of
\* dissolution_rap, yet no step changes its amount, which stays at its initial
\* value 0; what dissolution_rap delivers to rap_lumen is taken from
\* PODOSE_rap instead (Mr_rap mass units per amount unit).
C19_StomachClamped ==
    [][ pc = "model" =>
            LET dissolved == extent'["dissolution_rap"] - extent["dissolution_rap"]
            IN  /\ Lookup(species, "rap_stomach").boundaryCondition
                /\ Lookup(reactions, "dissolution_rap").reactant = "rap_stomach"
                /\ amount["rap_stomach"] = 0
                /\ amount'["rap_stomach"] = amount["rap_stomach"]
                /\ dissolved # 0 =>
                      /\ dissolved > 0
                      /\ PODOSE_rap - PODOSE_rap' = Mr_rap * dissolved
                      /\ amount'["rap_lumen"] - amount["rap_lumen"] = dissolved ]_vars

\* dissolution has delivered drug to the lumen out of the dose
C19_Witness ==
    /\ pc = "model"
    /\ extent["dissolution_rap"] > 0
    /\ amount["rap_stomach"] = 0
    /\ PODOSE_rap < dose0
    /\ Entered("rap_lumen") > 0

\* the pools the metabolite passes on its way to the feces, in order
Transit == <<"rx_lumen">> \o Stages

\* C23: transit delay ordering: the chain pools and the feces start at zero and
\* the metabolite reaches them in order: a pool of the transit becomes
\* positive only in a step taken while the pool before it is positive, so
\* rx_int_0 only after rx_lumen, rx_int_(k+1) only after rx_int_k, and
\* rx_feces only after every stage rx_int_0 .. rx_int_4 has received
\* metabolite.
C23_TransitOrder ==
    [][ pc = "model" =>
            /\ \A i \in 1..6 :
                  /\ (amount[Transit[i + 1]] = 0 /\ amount'[Transit[i + 1]] > 0)
                        => amount[Transit[i]] > 0
                  /\ amount[Transit[i + 1]] > 0 => Entered(Transit[i]) > 0
                  /\ Entered(Transit[i]) = 0 => amount[Transit[i + 1]] = 0
            /\ amount["rx_feces"] > 0
                  => \A i \in 1..6 : Entered(Transit[i]) > 0 ]_vars

\* the metabolite has arrived in the feces while the last stages still hold some
C23_Witness ==
    /\ pc = "model"
    /\ amount["rx_feces"] > 0
    /\ amount["rx_int_4"] > 0
    /\ amount["rx_int_0"] = 0

\* undissolved dose in a model whose dissolution constant is positive
DoseLeft ==
    /\ pc = "model"
    /\ FLess(Frac(0, 1), ParValue(parameters, "Ka_dis_rap"))
    /\ PODOSE_rap > 0

\* the dissolution rate is zero and the whole dose of the segment has been
\* delivered to rap_lumen
Settled ==
    /\ rate(Lookup(reactions, "dissolution_rap")) = Frac(0, 1)
    /\ \A m \in Subdivisions, up \in BOOLEAN :
          converted(Lookup(reactions, "dissolution_rap"), m, up) = 0
    /\ Mr_rap * (extent["dissolution_rap"] - extent0) = dose0
    /\ Entered("rap_lumen") = extent["dissolution_rap"]

\* C24: dose depletion completes: with Ka_dis_rap > 0 the dissolution step
\* keeps being taken while PODOSE_rap > 0, so PODOSE_rap eventually reaches
\* zero; once it is zero the dissolution rate is zero and the dissolution step
\* is not taken any more, so within the segment PODOSE_rap stays zero and the
\* cumulative amount delivered to rap_lumen stays the dose of the segment.
C24_DoseDepletes ==
    /\ DoseLeft ~> (PODOSE_rap = 0)
    /\ [](pc = "model" /\ PODOSE_rap = 0 => Settled)

\* a dose of two units or more has dissolved completely and part of it has
\* moved on from the lumen
C24_Witness ==
    /\ pc = "model"
    /\ dose0 >= 2 * Mr_rap
    /\ PODOSE_rap = 0
    /\ Mr_rap * (extent["dissolution_rap"] - extent0) = dose0
    /\ Left("rap_lumen") > 0

(***************************************************************************)
(* Properties of the three submodels (SpecModels)                          *)
(***************************************************************************)
Loaded(sid) == model_sid = sid /\ pc = "model"

Reactions(sid) == { r \in Range(reactions) : r.sid = sid }

\* substrate amounts [quanta] at which a rate law is evaluated
Levels == {0, 1, 2, 3, 10, 100, 1000}

\* rate of reaction r in the current state with the amount of species sp set to a
rate_at(r, sp, a) == rate_of(r, parameters, [amount EXCEPT ![sp] = a], PODOSE_rap)

FLeq(x, y) == ~ FLess(y, x)

\* f_cyp3a4 * f_cyp3a5 of the loaded model
cyp_activity ==
    FMul(ParValue(parameters, "f_cyp3a4"), ParValue(parameters, "f_cyp3a5"))

\* f_cyp3a4 * f_cyp3a5 * RAP2RX_Vmax * Vli
li_ceiling ==
    FMul(cyp_activity, FMul(ParValue(parameters, "RAP2RX_Vmax"), Volume("Vli")))

\* a rate law saturates when doubling the substrate less than doubles the rate
Saturates(r, sp) ==
    \A a \in { x \in Levels : 2 * x \in 0..1000 } :
        FLess(Frac(0, 1), rate_at(r, sp, a))
            => FLess(rate_at(r, sp, 2 * a), FMul(Frac(2, 1), rate_at(r, sp, a)))

\* C11 (as claimed): the hepatic and the enterocyte reaction RAP2RX both follow
\* the saturable Michaelis-Menten law: each is a reaction rap -> rx of its
\* submodel whose rate saturates as the substrate grows.
C11_BothSaturable ==
    /\ Loaded("rapamycin_liver") =>
          \A r \in Reactions("RAP2RX") : Saturates(r, "rap")
    /\ Loaded("rapamycin_intestine") =>
          \A r \in Reactions("RAP2RX") : Saturates(r, "rap_entero")

\* C11 (amended): the hepatic RAP2RX follows the Michaelis-Menten law
\* f_cyp3a4 * f_cyp3a5 * Vmax * Vli * rap / (rap + Km): at every substrate
\* level its rate never exceeds the ceiling f_cyp3a4 * f_cyp3a5 * Vmax * Vli,
\* is strictly below a positive ceiling, grows with the substrate and is
\* within 1% of the ceiling at the highest level.  The enterocyte RAP2RX is
\* linear in its substrate, f_cyp3a4 * f_cyp3a5 * RAP2RX_k * Ventero *
\* rap_entero, and has no ceiling.
C11_HepaticSaturableEnterocyteLinear ==
    /\ Loaded("rapamycin_liver") =>
          \A r \in Reactions("RAP2RX") :
              /\ r.reactant = "rap" /\ r.product = "rx"
              /\ \A a \in Levels :
                    LET s == FDiv(Frac(a, 1), Volume("Vli"))
                        v == rate_at(r, "rap", a)
                    IN  /\ FMul(v, FAdd(s, ParValue(parameters, "RAP2RX_Km_rap")))
                              = FMul(li_ceiling, s)
                        /\ FLeq(v, li_ceiling)
                        /\ FLess(Frac(0, 1), li_ceiling) => FLess(v, li_ceiling)
                        /\ \A b \in Levels :
                              (a < b /\ FLess(Frac(0, 1), li_ceiling))
                                  => FLess(v, rate_at(r, "rap", b))
              /\ FLeq(FMul(Frac(99, 100), li_ceiling), rate_at(r, "rap", 1000))
    /\ Loaded("rapamycin_intestine") =>
          \A r \in Reactions("RAP2RX") :
              /\ r.reactant = "rap_entero" /\ r.product = "rx_entero"
              /\ \A a \in Levels :
                    rate_at(r, "rap_entero", a)
                        = FMul(FMul(cyp_activity, ParValue(parameters, "RAP2RX_k")),
                               FMul(Volume("Ventero"),
                                    FDiv(Frac(a, 1), Volume("Ventero"))))

\* the hepatic reaction has converted parent drug at a rate between zero and
\* its ceiling
C11_Witness ==
    /\ Loaded("rapamycin_liver")
    /\ extent["RAP2RX"] > 0
    /\ amount["rap"] > 0
    /\ FLess(Frac(0, 1), rate(Lookup(reactions, "RAP2RX")))
    /\ FLess(rate(Lookup(reactions, "RAP2RX")), li_ceiling)

\* C12: in the liver the rate of RXEHC (rx_bi -> rx_lumen) equals in every
\* state the rate of RXEX, RXEX_k * Vli * (rx - rx_ext); it changes neither
\* with the bile pool rx_bi nor with the rate constant of the biliary export
\* RXBEX, and the two reactions have converted the same amount.
C12_RecirculationFollowsPlasmaExport ==
    Loaded("rapamycin_liver") =>
        LET ehc == Lookup(reactions, "RXEHC")
            ex == Lookup(reactions, "RXEX")
        IN  /\ ehc.reactant = "rx_bi" /\ ehc.product = "rx_lumen"
            /\ rate(ehc) = FMul(FMul(ParValue(parameters, "RXEX_k"), Volume("Vli")),
                                FSub(SymbolValue(amount, "rx"),
                                     SymbolValue(amount, "rx_ext")))
            /\ rate(ehc) = rate(ex)
            /\ \A b \in Levels : rate_at(ehc, "rx_bi", b) = rate(ehc)
            /\ \A v \in {0, 1, 100} :
                  rate_of(ehc, with_change(parameters, "RXBEX_k", Frac(v, FineScale)),
                          amount, PODOSE_rap) = rate(ehc)
            /\ extent["RXEHC"] = extent["RXEX"]

\* metabolite is being exported to plasma while the biliary export runs at a
\* different rate, and the recirculation has drawn on the bile pool
C12_Witness ==
    /\ Loaded("rapamycin_liver")
    /\ rate(Lookup(reactions, "RXEX")).num # 0
    /\ rate(Lookup(reactions, "RXBEX")) # rate(Lookup(reactions, "RXEX"))
    /\ extent["RXEHC"] > 0
    /\ extent["RXBEX"] > 0

\* the reaction each activity factor modifies
OwnReaction(f) ==
    CASE f = "f_oatp" -> "RAPIM"
      [] f = "f_cyp3a4" -> "RAP2RX"
      [] f = "f_cyp3a5" -> "RAP2RX"
      [] f = "f_pg" -> "RXPG"
      [] f = "f_renal_function" -> "RXEX"

FactorsOf(sid) ==
    CASE sid = "rapamycin_intestine" -> {"f_oatp", "f_cyp3a4", "f_cyp3a5", "f_pg"}
      [] sid = "rapamycin_liver" -> {"f_cyp3a4", "f_cyp3a5"}
      [] sid = "rapamycin_kidney" -> {"f_renal_function"}

\* values of an activity factor, in 1/FactorScale
ScanValues == {0, 1, 20}

\* C13: every activity factor is a multiplicative modifier of its own
\* reaction only: in every state and for every value of the factor the rate of
\* the factor's reaction is the value times the rate at 1.0 (the rate at 1.0
\* being the unmodified one), and the rate of every other reaction of the
\* submodel is the same for every value of the factor.
C13_FactorsMultiplicative ==
    pc = "model" =>
        /\ ActivityFactors = FactorsOf(model_sid)
        /\ \A f \in ActivityFactors :
              LET at_one == with_change(parameters, f, Frac(1, 1)) IN
              /\ Reactions(OwnReaction(f)) # {}
              /\ \A r \in Range(reactions) :
                    LET base == rate_of(r, at_one, amount, PODOSE_rap) IN
                    /\ rate(r) = IF r.sid = OwnReaction(f)
                                 THEN FMul(ParValue(parameters, f), base)
                                 ELSE base
                    /\ \A v \in ScanValues :
                          rate_of(r, with_change(parameters, f, Frac(v, FactorScale)),
                                  amount, PODOSE_rap)
                              = IF r.sid = OwnReaction(f)
                                THEN FMul(Frac(v, FactorScale), base)
                                ELSE base

\* the uptake into the enterocytes runs at a tenth of its activity while the
\* enterocytes hold parent drug
C13_Witness ==
    /\ Loaded("rapamycin_intestine")
    /\ ParValue(parameters, "f_oatp") = Frac(1, 10)
    /\ extent["RAPIM"] > 0
    /\ rate(Lookup(reactions, "RAPABS")).num # 0

\* the species whose amount a reaction or a rate rule of the model changes
Evolved ==
    { r.reactant : r \in Range(reactions) } \cup { r.product : r \in Range(reactions) }
        \cup { rule.variable : rule \in Range(rate_rules) }

\* C14: every submodel is solvable: each species that is not a boundary
\* condition is the reactant or the product of at least one reaction of its
\* submodel, or the variable of a rate rule.
C14_Solvable ==
    pc = "model" =>
        \A sp \in Range(species) : ~ sp.boundaryCondition => sp.sid \in Evolved

\* the intestine with its twelve species: the feces pool is evolved only as a
\* product, the stomach pool is the boundary species
C14_Witness ==
    /\ Loaded("rapamycin_intestine")
    /\ Len(species) = 12
    /\ Consuming("rx_feces") = {} /\ Producing("rx_feces") # {}
    /\ Lookup(species, "rap_stomach").boundaryCondition
    /\ amount["rap_lumen"] > 0

Declared == Ids(species) \cup Ids(compartments) \cup Ids(parameters)

\* the references of the species and of the equations of the reactions
EquationsResolve ==
    /\ \A sp \in Range(species) : sp.compartment \in Ids(compartments)
    /\ \A r \in Range(reactions) :
          /\ r.compartment \in Ids(compartments)
          /\ r.reactant \in Ids(species)
          /\ r.product \in Ids(species)
    /\ \A rule \in Range(rate_rules) : rule.variable \in Declared

\* C15 (as claimed): in every submodel the compartment of each species and
\* the compartment, reactant and product of each reaction are declared, and
\* every identifier in a reaction formula or a rate rule is a declared
\* species, compartment or parameter.
C15_FormulasOverSpeciesCompartmentsParameters ==
    pc = "model" =>
        /\ EquationsResolve
        /\ \A r \in Range(reactions) : Symbols(r.formula) \subseteq Declared
        /\ \A rule \in Range(rate_rules) : RuleSymbols(rule) \subseteq Declared

\* C15 (amended): in every submodel the compartment of each species and the
\* compartment, reactant and product of each reaction are declared, and every
\* identifier in a reaction formula or a rate rule is a declared species,
\* compartment, parameter or reaction of that submodel.
C15_ReferentialIntegrity ==
    pc = "model" =>
        /\ EquationsResolve
        /\ \A r \in Range(reactions) :
              Symbols(r.formula) \subseteq Declared \cup Ids(reactions)
        /\ \A rule \in Range(rate_rules) :
              RuleSymbols(rule) \subseteq Declared \cup Ids(reactions)

\* the liver, whose recirculation formula names the reaction RXEX, after the
\* recirculation has run
C15_Witness ==
    /\ Loaded("rapamycin_liver")
    /\ Symbols(Lookup(reactions, "RXEHC").formula) = {"RXEX"}
    /\ "RXEX" \in Ids(reactions) \ Declared
    /\ extent["RXEHC"] # 0

\* C16: in every submodel each concentration-valued species lives in a
\* compartment whose volume is defined and not zero; the compartments whose
\* value is NaN are among Vapical, Vbaso and Vmem, hold no species and appear
\* in no formula: they only site reactions.
C16_ConcentrationsHaveVolume ==
    pc = "model" =>
        /\ \A sp \in Range(species) :
              ~ sp.hasOnlySubstanceUnits =>
                  /\ sp.compartment \in Ids(compartments)
                  /\ ~ Lookup(compartments, sp.compartment).nan
                  /\ Lookup(compartments, sp.compartment).value > 0
        /\ \A c \in Range(compartments) :
              c.nan =>
                  /\ c.sid \in {"Vapical", "Vbaso", "Vmem"}
                  /\ \A sp \in Range(species) : sp.compartment # c.sid
                  /\ \A r \in Range(reactions) : c.sid \notin Symbols(r.formula)

\* the liver after the biliary export, which is sited on the NaN-valued apical
\* membrane, has moved metabolite out of the liver volume
C16_Witness ==
    /\ Loaded("rapamycin_liver")
    /\ Lookup(compartments, "Vapical").nan
    /\ Lookup(reactions, "RXBEX").compartment = "Vapical"
    /\ extent["RXBEX"] > 0
    /\ ~ Lookup(species, "rx").hasOnlySubstanceUnits

\* C17: in the kidney the reaction RXEX runs at the rate
\* f_renal_function * RXEX_k * Vki * rx_ext; in every step the urine amount
\* rx_urine stays the same or grows, it grows by exactly the amount that
\* leaves the plasma pool rx_ext, and with f_renal_function = 0 the rate of
\* RXEX, the only reaction that changes rx_urine, is zero whatever the plasma
\* pool holds, so that rx_urine does not change.
C17_UrineAccumulates ==
    [][ Loaded("rapamycin_kidney") =>
            /\ rate(Lookup(reactions, "RXEX"))
                  = FMul(FMul(ParValue(parameters, "f_renal_function"),
                              ParValue(parameters, "RXEX_k")),
                         FMul(Volume("Vki"), SymbolValue(amount, "rx_ext")))
            /\ amount'["rx_urine"] >= amount["rx_urine"]
            /\ amount'["rx_urine"] - amount["rx_urine"]
                  = amount["rx_ext"] + (administered' - administered) - amount'["rx_ext"]
            /\ \A r \in Range(reactions) :
                  "rx_urine" \in {r.reactant, r.product} => r.sid = "RXEX"
            /\ \A a \in Levels :
                  rate_of(Lookup(reactions, "RXEX"),
                          with_change(parameters, "f_renal_function", Frac(0, 1)),
                          [amount EXCEPT !["rx_ext"] = a], PODOSE_rap) = Frac(0, 1)
            /\ rate(Lookup(reactions, "RXEX")) = Frac(0, 1)
                  => amount'["rx_urine"] = amount["rx_urine"] ]_vars

\* metabolite has reached the urine while plasma still holds some
C17_Witness ==
    /\ Loaded("rapamycin_kidney")
    /\ amount["rx_urine"] > 0
    /\ amount["rx_ext"] > 0
    /\ amount["rx_urine"] = extent["RXEX"]

\* amount held by a species, from the value of its symbol: concentration times
\* the volume of its compartment, or the amount itself
Held(sp) ==
    IF Lookup(species, sp).hasOnlySubstanceUnits THEN SymbolValue(amount, sp)
    ELSE FMul(SymbolValue(amount, sp), Volume(Lookup(species, sp).compartment))

RECURSIVE TotalHeld(_)
TotalHeld(S) ==
    IF S = {} THEN Frac(0, 1)
    ELSE LET x == CHOOSE y \in S : TRUE IN FAdd(Held(x), TotalHeld(S \ {x}))

\* C18: the liver conserves mass: every reaction has moved its amount
\* one-for-one from its reactant to its product, so the total
\* rap_ext*Vext + rx_ext*Vext + rap*Vli + rx*Vli + rx_bi + rx_lumen*Vlumen
\* equals the amount that entered through the plasma ports, whatever reaction
\* steps were taken.
C18_LiverMassBalance ==
    Loaded("rapamycin_liver") =>
        /\ Ids(species) = {"rap_ext", "rx_ext", "rap", "rx", "rx_bi", "rx_lumen"}
        /\ TotalHeld(Ids(species)) = Frac(administered, 1)
        /\ amount["rx_bi"] = extent["RXBEX"] - extent["RXEHC"]
        /\ amount["rx_lumen"] = extent["RXEHC"]

\* parent drug was metabolised in the liver and the metabolite has gone on to
\* plasma, bile and lumen
C18_Witness ==
    /\ Loaded("rapamycin_liver")
    /\ administered > 0
    /\ extent["RAPIM"] > 0
    /\ extent["RAP2RX"] > 0
    /\ extent["RXEX"] > 0
    /\ extent["RXBEX"] > 0
    /\ amount["rx_lumen"] > 0

\* C25: in the liver, starting from all species at zero or positive values,
\* the bile metabolite amount rx_bi never becomes negative: RXEHC never removes
\* more from rx_bi than RXBEX has delivered to it.
C25_BileNonNegative ==
    Loaded("rapamycin_liver") =>
        /\ amount["rx_bi"] >= 0
        /\ extent["RXEHC"] <= extent["RXBEX"]

\* multiples by which a parameter is changed
Multiples == {0, 2, 5}

\* the parameters with parameter id multiplied by c
scaled(id, c) ==
    with_change(parameters, id, FMul(Frac(c, 1), ParValue(parameters, id)))

\* C26: in the intestine the import RAPIM and the absorption RAPABS are
\* coupled through the one rate constant RAPIM_k: changing RAPIM_k scales both
\* rates in the same proportion and no parameter changes the RAPABS rate
\* alone, while f_oatp scales the RAPIM rate only and leaves the RAPABS rate
\* of the state unchanged.
C26_ImportAndAbsorptionCoupled ==
    Loaded("rapamycin_intestine") =>
        LET import == Lookup(reactions, "RAPIM")
            absorption == Lookup(reactions, "RAPABS")
            at(r, pars) == rate_of(r, pars, amount, PODOSE_rap)
        IN  /\ Symbols(absorption.formula) \cap Ids(parameters) = {"RAPIM_k"}
            /\ "RAPIM_k" \in Symbols(import.formula)
            /\ \A c \in Multiples :
                  /\ at(import, scaled("RAPIM_k", c)) = FMul(Frac(c, 1), rate(import))
                  /\ at(absorption, scaled("RAPIM_k", c))
                        = FMul(Frac(c, 1), rate(absorption))
                  /\ at(import, scaled("f_oatp", c)) = FMul(Frac(c, 1), rate(import))
                  /\ at(absorption, scaled("f_oatp", c)) = rate(absorption)
                  /\ \A q \in Ids(parameters) :
                        at(absorption, scaled(q, c)) # rate(absorption)
                            => /\ q = "RAPIM_k"
                               /\ rate(import).num # 0
                                     => at(import, scaled(q, c)) # rate(import)

\* drug is being taken up from the lumen and absorbed from the enterocytes at
\* the same time
C26_Witness ==
    /\ Loaded("rapamycin_intestine")
    /\ rate(Lookup(reactions, "RAPIM")).num # 0
    /\ rate(Lookup(reactions, "RAPABS")).num # 0
    /\ extent["RAPABS"] > 0

(***************************************************************************)
(* simulations.py: run_simulation_experiments                               *)
(***************************************************************************)
\* arguments the function is called with
Selections == {None, Some(""), Some("all"), Some("dose"), Some("scan"),
               Some("pharmacodynamics")}
ExperimentClasses == {None, Some(<<>>), Some(<<"Kelly1999">>),
                      Some(<<"Wang2014", "Zimmerman1997">>)}
OutputDirs == {None, Some(<<"out">>)}

ModelsIdle ==
    /\ results = [s \in SimKeys |-> NoResult]
    /\ runs = 0
    /\ last_op = "none"
    /\ raised = "none"
    /\ table_of = [s \in SimKeys |-> NoValue]
    /\ calculator_nd = "raise"
    /\ model_sid = "none"
    /\ pc = "off" /\ k = 0
    /\ compartments = <<>> /\ parameters = <<>> /\ species = <<>>
    /\ reactions = <<>> /\ rate_rules = <<>>
    /\ amount = <<>> /\ extent = <<>>
    /\ PODOSE_rap = 0 /\ dose0 = 0 /\ extent0 = 0 /\ administered = 0

InitRun ==
    /\ RunIdle
    /\ ExtractIdle
    /\ FitIdle
    /\ SimIdle
    /\ ModelsIdle

\* run_simulation_experiments(selected, experiment_classes, output_dir).
\* run_experiments (helpers.py) is called with the experiments and the output
\* directory; of its effects only the figures it leaves below the output
\* directory matter here: `figures` are the experiments that wrote one, each as
\* <output_dir>/<experiment>/<experiment>.png.  Then the figures directory is
\* made with its parents and every figure below the output directory that is
\* not already in it is copied into it.
RunSimulationExperiments(selected, experiment_classes, output_dir) ==
    LET run == experiments_to_run(selected, experiment_classes)
        out == IF output_dir.some THEN output_dir.val
                                  ELSE Append(RESULTS_PATH_SIMULATION, run.subdir)
        figures_dir == Append(out, "_figures")
    IN  /\ n_calls < MaxCalls
        /\ n_calls' = n_calls + 1
        /\ invocation' = [selected |-> selected,
                          experiment_classes |-> experiment_classes,
                          output_dir |-> output_dir]
        /\ IF run.error # "none"
           THEN /\ console' = run.error
                /\ UNCHANGED <<run_calls, dirs, files>>
           ELSE \E figures \in {{}, Range(run.classes)} :
                   LET written == { out \o <<c, c \o ".png">> : c \in figures }
                       found == glob(out, files \cup written)
                       copied == { Append(figures_dir, name(f)) :
                                      f \in { g \in found : parent(g) # figures_dir } }
                   IN  /\ run_calls' = Append(run_calls,
                                              [experiment_classes |-> run.classes,
                                               output_dir |-> out])
                       /\ files' = files \cup written \cup copied
                       /\ dirs' = dirs \cup {figures_dir} \cup parents(figures_dir)
                                       \cup UNION { parents(f) : f \in written }
                       /\ console' = "Figures copied to"
        /\ UNCHANGED <<pkvars, guvars, fitvars, simvars, exvars>>

NextRun ==
    \E selected \in Selections, experiment_classes \in ExperimentClasses,
       output_dir \in OutputDirs :
        RunSimulationExperiments(selected, experiment_classes, output_dir)

SpecRun == InitRun /\ [][NextRun]_vars

\* the last call had experiment_classes None and a selection that is empty, None
\* or not a key of EXPERIMENTS
BadSelection(call) ==
    /\ ~call.experiment_classes.some
    /\ \/ ~call.selected.some
       \/ call.selected.val = ""
       \/ call.selected.val \notin DOMAIN EXPERIMENTS

\* C27: a call of run_simulation_experiments with experiment_classes None and a
\* selection that is None, empty or not a key of EXPERIMENTS reports an error
\* and returns: run_experiments is not called, no directory is made and no file
\* is written.  A call with experiment_classes given calls run_experiments with
\* exactly these classes, whatever `selected` is.
C27_NothingRunOnBadSelection ==
    [][ n_calls' # n_calls =>
          /\ BadSelection(invocation') =>
                /\ run_calls' = run_calls
                /\ dirs' = dirs
                /\ files' = files
                /\ console' \in {"Error: Unknown group",
                                 "Error: No experiments specified!"}
          /\ invocation'.experiment_classes.some =>
                /\ Len(run_calls') = Len(run_calls) + 1
                /\ run_calls'[Len(run_calls')].experiment_classes
                      = invocation'.experiment_classes.val
                /\ Append(run_calls'[Len(run_calls')].output_dir, "_figures") \in dirs'
      ]_vars

\* an unknown group was selected after a run of given experiment classes that
\* left its figures behind
C27_Witness ==
    /\ n_calls = 2
    /\ BadSelection(invocation)
    /\ invocation.selected = Some("pharmacodynamics")
    /\ console = "Error: Unknown group"
    /\ Len(run_calls) = 1
    /\ run_calls[1].experiment_classes = <<"Kelly1999">>
    /\ <<"results", "simulation", "custom_selection", "_figures", "Kelly1999.png">> \in files

(***************************************************************************)
(* fit_experiments.py: the control data set                                 *)
(***************************************************************************)
InitFit ==
    /\ fit_mapping \in [key : {"fm"}, metadata : RapamycinMappingMetaData]
    /\ control = {}
    /\ filtered = FALSE
    /\ RunIdle
    /\ ExtractIdle
    /\ SimIdle
    /\ ModelsIdle

\* f_fitexp_control(): f_fitexp keeps the fit mapping if every filter of
\* metadata_filters = [filter_baseline] returns True for it
FFitexpControl ==
    /\ ~filtered
    /\ filtered' = TRUE
    /\ control' = IF filter_baseline(fit_mapping.key, fit_mapping) THEN {fit_mapping}
                                                                   ELSE {}
    /\ UNCHANGED <<fit_mapping, pkvars, guvars, runvars, simvars, exvars>>

NextFit == FFitexpControl

SpecFit == InitFit /\ [][NextFit]_vars

\* C29: the fit mapping is in the control data set if and only if its metadata
\* has coadministration NONE, health HEALTHY, dosing SINGLE, a genotype among
\* CYP3A4 *1/*1, CYP3A5 *1/*1 and not reported, and outlier False; the control
\* data set holds nothing else.
C29_BaselineFilter ==
    filtered =>
        LET md == fit_mapping.metadata
        IN  /\ fit_mapping \in control
                <=> /\ md.coadministration = "none"
                    /\ md.health = "healthy"
                    /\ md.dosing = "single"
                    /\ md.genotype \in {"CYP3A4 *1/*1", "CYP3A5 *1/*1", "not reported"}
                    /\ md.outlier = FALSE
            /\ control \subseteq {fit_mapping}
            /\ \A m \in control :
                  /\ m.metadata.health = "healthy"
                  /\ m.metadata.dosing = "single"
                  /\ m.metadata.coadministration = "none"
                  /\ ~m.metadata.outlier
                  /\ m.metadata.genotype \notin {"CYP3A4 *1/*1G", "CYP3A4 *1G/*1G",
                                                 "CYP3A5 *1/*3", "CYP3A5 *3/*3"}

\* a healthy single-dose mapping of CYP3A5 *1/*1 carriers without co-medication
\* was kept
C29_Witness ==
    /\ filtered
    /\ fit_mapping \in control
    /\ fit_mapping.metadata.genotype = "CYP3A5 *1/*1"

(***************************************************************************)
(* studies/kelly1999.py, studies/wang2014.py, studies/zimmerman1997.py:     *)
(* simulations()                                                            *)
(***************************************************************************)
SimClasses == {"Kelly1999", "Wang2014", "Zimmerman1997"}

\* the dose of the segments: Q_(3.6, "mg"), Q_(2.5, "mg"), and
\* Q_(self.doses[intervention] * 1.78, "mg")
dose_of(class, n) ==
    IF class = "Kelly1999" THEN Q_(Frac(36, 10), "mg")
    ELSE IF class = "Wang2014" THEN Q_(Frac(25, 10), "mg")
    ELSE Q_(FMul(Zimmerman1997_doses[Zimmerman1997_interventions[n]], Frac(178, 100)),
            "mg")

\* the entries that tc0 adds to the default changes
tc0_changes(class, n) ==
    IF class = "Kelly1999"
    THEN [BW |-> Q_(Frac(758, 10), "kg"),
          PODOSE_rap |-> dose_of(class, n),
          GU__f_cyp3a4 |-> Q_(Frac(6, 10), "dimensionless"),
          LI__f_cyp3a4 |-> Q_(Frac(6, 10), "dimensionless")]
    ELSE IF class = "Wang2014"
    THEN [BW |-> Q_(Frac(70, 1), "kg"),
          PODOSE_rap |-> dose_of(class, n),
          GU__f_cyp3a4 |-> Q_(Wang2014_f_cyp3a4[Wang2014_interventions[n]],
                              "dimensionless"),
          LI__f_cyp3a4 |-> Q_(Wang2014_f_cyp3a4[Wang2014_interventions[n]],
                              "dimensionless")]
    ELSE [BW |-> Q_(Frac(832, 10), "kg"),
          PODOSE_rap |-> dose_of(class, n),
          GU__f_cyp3a4 |-> Q_(Frac(6, 10), "dimensionless"),
          LI__f_cyp3a4 |-> Q_(Frac(6, 10), "dimensionless")]

\* `end` and `steps` of tc0, tc1 and tc2
tc_end ==
    [Kelly1999 |-> [tc0 |-> 24 * 60, tc1 |-> 24 * 60, tc2 |-> 14 * 60],
     Wang2014 |-> [tc0 |-> 24 * 60, tc1 |-> 24 * 60, tc2 |-> 25 * 60],
     Zimmerman1997 |-> [tc0 |-> 12 * 60, tc1 |-> 12 * 60, tc2 |-> 200 * 60]]
tc_steps ==
    [Kelly1999 |-> [tc0 |-> 100, tc1 |-> 50, tc2 |-> 200],
     Wang2014 |-> [tc0 |-> 50, tc1 |-> 50, tc2 |-> 300],
     Zimmerman1997 |-> [tc0 |-> 200, tc1 |-> 200, tc2 |-> 2000]]

\* the list of segments and the time offset handed to TimecourseSim
timecourses_arg(class, l, duration) ==
    IF class = "Kelly1999"
    THEN <<l.tc0>> \o repeat(l.tc1, 7 * duration - 2) \o <<l.tc2>>
    ELSE IF class = "Wang2014"
    THEN <<l.tc0>> \o repeat(l.tc1, 13) \o <<l.tc2>>
    ELSE <<l.tc0>> \o [j \in 1..25 |-> l.tc1] \o <<l.tc2>>

time_offset_arg(class, duration) ==
    IF class = "Kelly1999" THEN Kelly1999_time_offset(duration)
    ELSE IF class = "Wang2014" THEN -24 * 60 * 14
    ELSE 0

InitSims ==
    /\ sim_class \in SimClasses
    /\ spc = "tc0"
    /\ it = IF sim_class = "Kelly1999" THEN 0 ELSE 1
    /\ locals = NoLocals
    /\ heap = <<>>
    /\ fresh = <<>>
    /\ tcsims = <<>>
    /\ copy_nd \in {"references", "copy_repeated"}
    /\ n_changes = 0
    /\ last_changed = ""
    /\ RunIdle
    /\ ExtractIdle
    /\ FitIdle
    /\ ModelsIdle

\* tc0 = Timecourse(start=0, end=.., steps=.., changes={**self.default_changes(), ..}):
\* default_changes() returns a new mapping, the dict display makes another one
\* from its items, and the Timecourse refers to the latter
NewTc0 ==
    /\ spc = "tc0"
    /\ LET returned == Len(heap) + 1
           h1 == Append(heap, Dict(default_changes_items))
           h2 == Append(h1, Dict(dict_merge(h1[returned].items,
                                            tc0_changes(sim_class, it))))
       IN  /\ heap' = Append(h2, Timecourse(0, tc_end[sim_class].tc0,
                                            tc_steps[sim_class].tc0, Len(h2)))
           /\ fresh' = Append(fresh, returned)
           /\ locals' = [locals EXCEPT !.tc0 = Len(h2) + 1]
    /\ spc' = "tc1"
    /\ UNCHANGED <<sim_class, it, tcsims, copy_nd, n_changes, last_changed,
                   pkvars, guvars, runvars, fitvars, exvars>>

\* tc1 = Timecourse(start=0, end=.., steps=.., changes={"PODOSE_rap": ..})
NewTc1 ==
    /\ spc = "tc1"
    /\ LET h1 == Append(heap, Dict([PODOSE_rap |-> dose_of(sim_class, it)]))
       IN  /\ heap' = Append(h1, Timecourse(0, tc_end[sim_class].tc1,
                                            tc_steps[sim_class].tc1, Len(h1)))
           /\ locals' = [locals EXCEPT !.tc1 = Len(h1) + 1]
    /\ spc' = "tc2"
    /\ UNCHANGED <<sim_class, it, fresh, tcsims, copy_nd, n_changes, last_changed,
                   pkvars, guvars, runvars, fitvars, exvars>>

\* tc2 = Timecourse(start=0, end=.., steps=.., changes={"PODOSE_rap": ..});
\* in Kelly1999 the loop over the interventions begins after it
NewTc2 ==
    /\ spc = "tc2"
    /\ LET h1 == Append(heap, Dict([PODOSE_rap |-> dose_of(sim_class, it)]))
       IN  /\ heap' = Append(h1, Timecourse(0, tc_end[sim_class].tc2,
                                            tc_steps[sim_class].tc2, Len(h1)))
           /\ locals' = [locals EXCEPT !.tc2 = Len(h1) + 1]
    /\ spc' = "TimecourseSim"
    /\ it' = IF sim_class = "Kelly1999" THEN 1 ELSE it
    /\ UNCHANGED <<sim_class, fresh, tcsims, copy_nd, n_changes, last_changed,
                   pkvars, guvars, runvars, fitvars, exvars>>

\* tcsims[f"rap_{intervention}"] = TimecourseSim([tc0] + [tc1] * .. + [tc2], ..),
\* in Kelly1999 after the statement that sets `duration`; then the next
\* iteration of the loop begins, or the loop ends
NewTimecourseSim ==
    /\ spc = "TimecourseSim"
    /\ LET duration == IF sim_class = "Kelly1999"
                       THEN Kelly1999_duration(Kelly1999_interventions[it],
                                               locals.duration)
                       ELSE locals.duration
           stored == store_timecourses(heap, <<>>,
                                       timecourses_arg(sim_class, locals, duration),
                                       copy_nd)
       IN  /\ heap' = stored.heap
           /\ tcsims' = (sim_key_of(sim_class, it)
                            :> TimecourseSim(stored.timecourses,
                                             time_offset_arg(sim_class, duration)))
                        @@ tcsims
           /\ locals' = [locals EXCEPT !.duration = duration]
    /\ IF it < n_interventions(sim_class)
       THEN /\ it' = it + 1
            /\ spc' = IF sim_class = "Kelly1999" THEN "TimecourseSim" ELSE "tc0"
       ELSE /\ it' = it
            /\ spc' = "return"
    /\ UNCHANGED <<sim_class, fresh, copy_nd, n_changes, last_changed,
                   pkvars, guvars, runvars, fitvars, exvars>>

\* return tcsims
Return ==
    /\ spc = "return"
    /\ spc' = "done"
    /\ UNCHANGED <<sim_class, it, locals, heap, fresh, tcsims, copy_nd, n_changes,
                   last_changed, pkvars, guvars, runvars, fitvars, exvars>>

\* doses an override is set to
NewDoses == {Q_(Frac(0, 1), "mg"), Q_(Frac(5, 1), "mg")}

\* tcsims[key].timecourses[i].changes["PODOSE_rap"] = value, by a user of the
\* returned simulations
SetChange(key, i, value) ==
    /\ spc = "done"
    /\ n_changes < MaxChanges
    /\ key \in DOMAIN tcsims
    /\ i \in DOMAIN tcsims[key].timecourses
    /\ heap' = [heap EXCEPT ![heap[tcsims[key].timecourses[i]].changes].items
                               = dict_merge(@, [PODOSE_rap |-> value])]
    /\ n_changes' = n_changes + 1
    /\ last_changed' = key
    /\ UNCHANGED <<sim_class, spc, it, locals, fresh, tcsims, copy_nd,
                   pkvars, guvars, runvars, fitvars, exvars>>

NextSims ==
    \/ NewTc0
    \/ NewTc1
    \/ NewTc2
    \/ NewTimecourseSim
    \/ Return
    \/ \E key \in DOMAIN tcsims, value \in NewDoses :
          \E i \in {1, 2, Len(tcsims[key].timecourses)} : SetChange(key, i, value)

SpecSims == InitSims /\ [][NextSims]_vars

\* weeks of treatment of the six interventions of Kelly1999
KellyWeeks == <<2, 4, 8, 2, 4, 8>>

\* C28: in every simulation of Kelly1999 (2, 4 and 8 weeks) and of Wang2014 each
\* segment starts where the one before it ends, the time offset is minus the
\* summed duration of all segments before the last, the last segment starts at
\* reported time 0 and every earlier segment, each of which gives a dose, starts
\* at a negative time.
C28_FinalDoseAtTimeZero ==
    sim_class \in {"Kelly1999", "Wang2014"} =>
        \A n \in 1..n_interventions(sim_class) :
            sim_key_of(sim_class, n) \in DOMAIN tcsims =>
                LET sim == tcsims[sim_key_of(sim_class, n)]
                    last == Len(sim.timecourses)
                    length(i) == heap[sim.timecourses[i]].end
                                    - heap[sim.timecourses[i]].start
                IN  /\ last = IF sim_class = "Kelly1999" THEN 7 * KellyWeeks[n]
                                                         ELSE 15
                    /\ sim.time_offset = -elapsed(heap, sim.timecourses, last - 1)
                    /\ segment_start(heap, sim, last) = 0
                    /\ \A i \in 1..(last - 1) :
                          /\ segment_start(heap, sim, i) < 0
                          /\ length(i) > 0
                          /\ segment_start(heap, sim, i + 1)
                                = segment_start(heap, sim, i) + length(i)
                          /\ "PODOSE_rap"
                                \in DOMAIN heap[heap[sim.timecourses[i]].changes].items

\* simulations() of Kelly1999 has returned; the 8-week protocol has 56 segments,
\* the first starting 55 days before and the last at reported time 0
C28_Witness ==
    /\ sim_class = "Kelly1999"
    /\ spc = "done"
    /\ Len(tcsims["rap_RAP_T8, CSA"].timecourses) = 56
    /\ segment_start(heap, tcsims["rap_RAP_T8, CSA"], 1) = -55 * 24 * 60
    /\ segment_start(heap, tcsims["rap_RAP_T8, CSA"], 56) = 0

\* the objects of a simulation: its segments and their override mappings
objects(h, sim) ==
    Range(sim.timecourses) \cup { h[tc].changes : tc \in Range(sim.timecourses) }

\* the overrides of a simulation, segment by segment
overrides(h, sim) ==
    [i \in DOMAIN sim.timecourses |-> h[h[sim.timecourses[i]].changes].items]

\* C30: every call of default_changes returns a mapping that did not exist
\* before; the segments and override mappings of one simulation of an experiment
\* are distinct from those of every other simulation of it; and setting an
\* override of one simulation leaves the overrides of every other simulation
\* as they were.
C30_NoSharedOverrides ==
    [][ /\ Len(fresh') > Len(fresh) =>
              /\ fresh'[Len(fresh')] > Len(heap)
              /\ heap'[fresh'[Len(fresh')]] = Dict(default_changes_items)
        /\ \A a, b \in DOMAIN tcsims' :
              a # b => objects(heap', tcsims'[a]) \cap objects(heap', tcsims'[b]) = {}
        /\ n_changes' # n_changes =>
              \A b \in DOMAIN tcsims \ {last_changed'} :
                  overrides(heap', tcsims'[b]) = overrides(heap, tcsims[b])
      ]_vars

====
